---- MODULE Spec2Model ----
(***************************************************************************)
(* CoordinateConverter of falcon-bms-tacview-converter                    *)
(* (src/src/utils/coordinate_converter.py) as a state machine.            *)
(*                                                                         *)
(* State: the converter's fields (theater_config, heightmap_path,         *)
(* _heightmap_data), the module flag KARNEY_AVAILABLE, the heightmap file  *)
(* on disk, and for every calling thread the position inside the call it   *)
(* is executing together with that call's locals.  get_elevation is split  *)
(* at its system calls (exists, open, seek, read); the other operations    *)
(* touch no shared resource and are one step each.                         *)
(*                                                                         *)
(* Numbers: Python floats are modelled as exact rationals in lowest terms, *)
(* so float rounding error is not part of the model.                       *)
(***************************************************************************)
EXTENDS Integers, Sequences, FiniteSets, TLC

VARIABLES
    theater_config,     \* self.theater_config: a dict, modelled as a function on its keys
    heightmap_path,     \* self.heightmap_path: None or a path
    _heightmap_data,    \* self._heightmap_data
    KARNEY_AVAILABLE,   \* module flag set by the pygeodesy import
    fs,                 \* what the heightmap path names on disk
    pc,                 \* per thread: position in the running call
    args,               \* per thread: the running call and its arguments
    file_offset,        \* per thread: local file_offset of get_elevation
    fpos,               \* per file handle: the handle's seek cursor
    pixel,              \* per thread: locals <<pixel_x, pixel_y>> of get_elevation
    raw_bytes,          \* per thread: local raw_bytes of get_elevation
    io,                 \* per thread: open/seek/read calls made by the running call
    outcome,            \* per thread: what the call returned or raised
    _theater_cache,     \* TheaterConfigManager._theater_cache: name -> config
    _bms_available,     \* TheaterConfigManager._bms_available: None, True or False
    falcon_bms_root,    \* TheaterConfigManager.falcon_bms_root of _config_manager
    bms_files,          \* per root directory: the BMS installation found there
    import_mode,        \* how the process imported coordinate_converter.py
    static_configs,     \* the module-level dict STATIC_THEATER_CONFIGS as it is now
    src_theater_config_root
                        \* root of _config_manager in a second copy of the module
                        \* theater_config (loaded as src.theater_config), if any

vars == <<theater_config, heightmap_path, _heightmap_data, KARNEY_AVAILABLE, fs,
          pc, args, pixel, file_offset, fpos, raw_bytes, io, outcome,
          _theater_cache, _bms_available, falcon_bms_root, bms_files, import_mode,
          static_configs, src_theater_config_root>>

converter == <<theater_config, heightmap_path, _heightmap_data>>

\* What the calls of the theater_config module leave alone.
environment == <<bms_files, import_mode, static_configs>>

manager == <<_theater_cache, _bms_available, falcon_bms_root, src_theater_config_root,
             environment>>

-----------------------------------------------------------------------------
(* Bounds of the model *)

MaxW == 3       \* raster width of the test theater
MaxH == 2       \* raster height of the test theater
MinX == 1       \* heightmap_bounds of the test theater, feet
MaxX == 4
MinY == 2
MaxY == 5
MaxMeters == 2  \* meter inputs are 0..MaxMeters

(* Program constants *)

DECIMALS_5 == 100000            \* the float literals below have five decimals
FEET_PER_METER_NUM == 30488     \* feet_to_meters: FEET_PER_METER = 0.30488
FT_TO_METERS_NUM == 30488       \* meters_to_feet: FT_TO_METERS = 0.30488
METERS_TO_FT_NUM == 328084      \* grid_to_ft = meter_res * 3.28084
THEATER_SIZE_KM_DEFAULT == 1024 \* theater_config.get('theater_size_km', 1024)
BYTES_PER_SAMPLE == 2           \* file_offset = index * 2; f.read(2)

Threads == {"main", "worker"}
None == "None"
NoValue == "-"

-----------------------------------------------------------------------------
(* Arithmetic helpers *)

Min(a, b) == IF a <= b THEN a ELSE b
Max(a, b) == IF a >= b THEN a ELSE b
Abs(a) == IF a >= 0 THEN a ELSE -a

RECURSIVE GCD(_, _)
GCD(a, b) == IF b = 0 THEN a ELSE GCD(b, a % b)

\* Python floats as exact rationals [n, d] in lowest terms, d > 0.
RNorm(n, d) ==
    LET g == GCD(Abs(n), Abs(d))
        sgn == IF d < 0 THEN -1 ELSE 1
    IN  [n |-> sgn * (n \div g), d |-> sgn * (d \div g)]

R(i) == [n |-> i, d |-> 1]

RNeg(a) == [n |-> -a.n, d |-> a.d]

RAdd(a, b) ==
    LET g == GCD(a.d, b.d)
        l == (a.d \div g) * b.d
    IN  RNorm(a.n * (l \div a.d) + b.n * (l \div b.d), l)

RSub(a, b) == RAdd(a, RNeg(b))

RMul(a, b) ==
    LET g1 == GCD(Abs(a.n), b.d)
        g2 == GCD(Abs(b.n), a.d)
    IN  RNorm((a.n \div g1) * (b.n \div g2), (a.d \div g2) * (b.d \div g1))

\* a / b for b # 0
RDiv(a, b) == RMul(a, RNorm(b.d, b.n))

RLt(a, b) == RSub(a, b).n < 0
RGt(a, b) == RLt(b, a)

\* a - b, taking the whole parts first so that large values of nearly equal
\* size do not need a large common denominator
RDiff(a, b) ==
    RAdd(R((a.n \div a.d) - (b.n \div b.d)),
         RSub(RNorm(a.n % a.d, a.d), RNorm(b.n % b.d, b.d)))

RAbs(a) == [n |-> Abs(a.n), d |-> a.d]

\* Python int(): truncation toward zero.
IntTrunc(a) == IF a.n >= 0 THEN a.n \div a.d ELSE -((-a.n) \div a.d)

-----------------------------------------------------------------------------
(* The heightmap file *)

\* Sample bytes of the test raster: byte i of the file (0-based).
RasterByte(i) == (i * 97 + 31) % 256

RasterFile(len) == [i \in 1..len |-> RasterByte(i - 1)]

FullLen == MaxW * MaxH * BYTES_PER_SAMPLE

\* What the path can name: nothing, something that exists but cannot be
\* opened for reading (a directory, no permission), or a regular file.
FileStates ==
    { [kind |-> "absent", content |-> <<>>],
      [kind |-> "unreadable", content |-> <<>>] }
    \cup { [kind |-> "regular", content |-> RasterFile(n)] :
             n \in {0, FullLen - 1, FullLen} }

\* os.path.exists(path)
PathExists(f) == f.kind # "absent"

-----------------------------------------------------------------------------
(* Theater configurations *)

TestBounds == [min_x |-> MinX, max_x |-> MaxX, min_y |-> MinY, max_y |-> MaxY]

\* A projection descriptor is a sequence of whitespace-separated tokens.  A
\* token is kept by its lexical parts: whether it starts with "+", its key
\* (the text before the first "=") and its value (the text after it: a
\* number, other text, or nothing when the token has no "=").
NumVal(r) == [kind |-> "num", v |-> r]
TextVal(txt) == [kind |-> "text", v |-> txt]
NoVal == [kind |-> "none", v |-> NoValue]

Tok(key, val) == [plus |-> TRUE, key |-> key, val |-> val]

\* A token written without the leading "+".
BareTok(key, val) == [plus |-> FALSE, key |-> key, val |-> val]

\* "+proj=tmerc +lon_0=127 +ellps=WGS84 +k=0.9996 +units=m +x_0=512000 +y_0=-3749290"
TmercString ==
    << Tok("proj", TextVal("tmerc")), Tok("lon_0", NumVal(R(127))),
       Tok("ellps", TextVal("WGS84")), Tok("k", NumVal(RNorm(9996, 10000))),
       Tok("units", TextVal("m")), Tok("x_0", NumVal(R(512000))),
       Tok("y_0", NumVal(R(-3749290))) >>

\* "+proj=utm +zone=52 +datum=WGS84 +units=m +no_defs"
UtmString ==
    << Tok("proj", TextVal("utm")), Tok("zone", NumVal(R(52))),
       Tok("datum", TextVal("WGS84")), Tok("units", TextVal("m")),
       Tok("no_defs", NoVal) >>

\* "+proj=tmerc +ellps=WGS84 +k_0=0.9999 +units=m": no lon_0, the scale as k_0
K0String ==
    << Tok("proj", TextVal("tmerc")), Tok("ellps", TextVal("WGS84")),
       Tok("k_0", NumVal(RNorm(9999, 10000))), Tok("units", TextVal("m")) >>

\* "lon_0=120 +proj=tmerc +lon_0=126 +lon_0=127 +k_0=0.9999 +k=0.9996 +x_0=512000":
\* a token without "+", a repeated key, both spellings of the scale
MixedString ==
    << BareTok("lon_0", NumVal(R(120))), Tok("proj", TextVal("tmerc")),
       Tok("lon_0", NumVal(R(126))), Tok("lon_0", NumVal(R(127))),
       Tok("k_0", NumVal(RNorm(9999, 10000))), Tok("k", NumVal(RNorm(9996, 10000))),
       Tok("x_0", NumVal(R(512000))) >>

\* "+proj=tmerc +lon_0 +k=0.9996": lon_0 without a value
NoValueString ==
    << Tok("proj", TextVal("tmerc")), Tok("lon_0", NoVal),
       Tok("k", NumVal(RNorm(9996, 10000))) >>

\* "+proj=tmerc +lon_0=127 +k=abc": a scale that is no number
TextValueString ==
    << Tok("proj", TextVal("tmerc")), Tok("lon_0", NumVal(R(127))),
       Tok("k", TextVal("abc")) >>

\* A static-table style config (theater_data.py): no grid fields.  The test
\* theater states its size so that one pixel is one meter.
StaticConfig(w, h) ==
    [projection_string |-> TmercString,
     center_lat |-> R(38),
     center_lon |-> R(127),
     theater_size_km |-> RNorm(w, 1000),
     heightmap_size |-> <<w, h>>,
     heightmap_bounds |-> TestBounds]

\* A config as read from Theater.txt (theater_config.py, _parse_theater_txt)
\* and completed from the static table: the grid fields are present.
BmsConfig(w, h) ==
    [projection_string |-> TmercString,
     center_lat |-> R(38),
     center_lon |-> R(127),
     theater_size_meters |-> R(w),
     meter_res |-> R(1),
     grid_to_ft |-> RNorm(METERS_TO_FT_NUM, DECIMALS_5),
     ft_to_grid |-> RNorm(DECIMALS_5, METERS_TO_FT_NUM),
     heightmap_size |-> <<w, h>>,
     heightmap_bounds |-> TestBounds]

\* The test theater with another projection descriptor.
DescriptorConfig(proj_str) ==
    [StaticConfig(MaxW, MaxH) EXCEPT !.projection_string = proj_str]

\* Legacy mode accepts any dict with a projection_string
\* (examples/sample_config.py has neither heightmap_size nor heightmap_bounds).
Configs ==
    { BmsConfig(MaxW, MaxH), StaticConfig(MaxW, MaxH), StaticConfig(1, 1),
      [projection_string |-> UtmString, heightmap_bounds |-> TestBounds],
      [projection_string |-> UtmString, theater_size_km |-> RNorm(MaxW, 1000),
       heightmap_size |-> <<MaxW, MaxH>>],
      DescriptorConfig(K0String), DescriptorConfig(MixedString),
      DescriptorConfig(NoValueString), DescriptorConfig(TextValueString) }

HasKey(cfg, k) == k \in DOMAIN cfg

WellFormed(cfg) ==
    /\ HasKey(cfg, "heightmap_size")
    /\ HasKey(cfg, "heightmap_bounds")
    /\ cfg.heightmap_size[1] > 0 /\ cfg.heightmap_size[2] > 0
    /\ cfg.heightmap_bounds.min_x < cfg.heightmap_bounds.max_x
    /\ cfg.heightmap_bounds.min_y < cfg.heightmap_bounds.max_y

-----------------------------------------------------------------------------
(* Unit conversion, lines 79-87 *)

\* feet * 0.30488
feet_to_meters(feet) == RMul(feet, RNorm(FEET_PER_METER_NUM, DECIMALS_5))

\* Variant: the international foot, 0.3048.
meters_to_feet_Intl(meters) == RDiv(meters, RNorm(3048, 10000))

\* meters / 0.30488
meters_to_feet(meters) == RDiv(meters, RNorm(FT_TO_METERS_NUM, DECIMALS_5))

-----------------------------------------------------------------------------
(* get_elevation: the pure part, lines 279-309 *)

\* lines 280-285
\* Variant: meter input is taken as feet.
ToFeet_Unconverted(v, from_feet) == R(v)

\* lines 280-285
ToFeet(v, from_feet) == IF from_feet THEN R(v) ELSE meters_to_feet(R(v))

\* Variant: the upper bounds taken as exclusive.
OutOfBounds_ExclusiveMax(bounds, x_pos, y_pos) ==
    \/ RLt(x_pos, R(bounds.min_x)) \/ ~RLt(x_pos, R(bounds.max_x))
    \/ RLt(y_pos, R(bounds.min_y)) \/ ~RLt(y_pos, R(bounds.max_y))

\* Variant: only the lower bounds are checked.
OutOfBounds_MinOnly(bounds, x_pos, y_pos) ==
    \/ RLt(x_pos, R(bounds.min_x))
    \/ RLt(y_pos, R(bounds.min_y))

\* lines 288-289
OutOfBounds(bounds, x_pos, y_pos) ==
    \/ RLt(x_pos, R(bounds.min_x)) \/ RGt(x_pos, R(bounds.max_x))
    \/ RLt(y_pos, R(bounds.min_y)) \/ RGt(y_pos, R(bounds.max_y))

\* lines 304-305: max(0, min(hi, v))
Clamp(v, hi) == Max(0, Min(hi, v))

\* Variant: the nearest index, halves up.
ToIndex_Round(a) == (2 * a.n + a.d) \div (2 * a.d)

\* line 300: how the scaled ratio becomes an index
ToIndex(a) == IntTrunc(a)

\* lines 296, 300, 304
PixelX(bounds, width, x_pos) ==
    LET x_ratio == RDiv(RSub(x_pos, R(bounds.min_x)),
                        RSub(R(bounds.max_x), R(bounds.min_x)))
    IN  Clamp(ToIndex(RMul(x_ratio, R(width - 1))), width - 1)

\* Variant: row 0 taken as the southern edge (no flip).
PixelY_NoFlip(bounds, height, y_pos) ==
    LET y_ratio == RDiv(RSub(y_pos, R(bounds.min_y)),
                        RSub(R(bounds.max_y), R(bounds.min_y)))
    IN  Clamp(ToIndex(RMul(y_ratio, R(height - 1))), height - 1)

\* lines 297, 301, 305
PixelY(bounds, height, y_pos) ==
    LET y_ratio == RDiv(RSub(y_pos, R(bounds.min_y)),
                        RSub(R(bounds.max_y), R(bounds.min_y)))
    IN  Clamp(ToIndex(RMul(RSub(R(1), y_ratio), R(height - 1))), height - 1)

\* lines 308-309
FileOffset(width, pixel_x, pixel_y) == (pixel_y * width + pixel_x) * BYTES_PER_SAMPLE

\* Variant: big-endian decoding.
UnpackBE(raw) == 256 * raw[1] + raw[2]

\* struct.unpack('<H', raw_bytes)[0]
UnpackLE(raw) == raw[1] + 256 * raw[2]

-----------------------------------------------------------------------------
(* Outcomes of a call *)

Return(v) == [kind |-> "return", value |-> v]

\* exc: the exception type that leaves the call; origin: what raised first
\* inside the call (the cause); info: the data its message is built from.
Raise(exc, origin, info) == [kind |-> "raise", exc |-> exc, origin |-> origin, info |-> info]

NoIO == [opens |-> 0, seeks |-> 0, reads |-> 0]

\* Variant: one handle kept on the converter and shared by all calls.
HandleOf_Shared(t) == "main"

\* The file handle a call reads through: "with open(...) as f" makes a
\* handle of the call's own.
HandleOf(t) == t

\* The cursor of a handle that is not open.
Closed == -1

-----------------------------------------------------------------------------
(* Inputs *)

FeetInputs ==
    { [op |-> "get_elevation", x |-> x, y |-> y, from_feet |-> TRUE] :
        x \in (MinX - 1)..(MaxX + 1), y \in (MinY - 1)..(MaxY + 1) }

MeterInputs ==
    { [op |-> "get_elevation", x |-> x, y |-> y, from_feet |-> FALSE] :
        x \in 0..MaxMeters, y \in 0..MaxMeters }

ElevationInputs == FeetInputs \cup MeterInputs

NoArgs == [op |-> NoValue]

-----------------------------------------------------------------------------
(* Initial state: a constructed converter, no call running *)

PathValues == {None, "", "HeightMap.raw"}

\* theater_data.py: the static table (two of its entries)
STATIC_THEATER_CONFIGS ==
    [k \in {"korea", "balkans"} |->
        IF k = "korea" THEN StaticConfig(MaxW, MaxH) ELSE StaticConfig(1, 1)]

\* theater_data.py, line 8
DEFAULT_FALCON_BMS_ROOT == "F:\\Falcon BMS 4.38 (Internal)"

\* Another directory a caller can name as the root.
OtherRoot == "D:\\Falcon BMS"

Roots == {DEFAULT_FALCON_BMS_ROOT, OtherRoot}

\* No BMS installation at a root.
NoInstallation == [installed |-> FALSE, theaters |-> <<>>, sized |-> {}]

\* The module theater_config just imported (lines 400-401: _config_manager =
\* TheaterConfigManager(), whose __init__ is lines 27-31), beside an
\* installation env at the default root and none elsewhere.
InitManager(env) ==
    /\ _theater_cache = <<>>
    /\ _bms_available = None
    /\ falcon_bms_root = DEFAULT_FALCON_BMS_ROOT
    /\ bms_files = [r \in Roots |-> IF r = DEFAULT_FALCON_BMS_ROOT THEN env
                                   ELSE NoInstallation]
    /\ import_mode = "package"
    /\ static_configs = STATIC_THEATER_CONFIGS
    /\ src_theater_config_root = NoValue

NoCallRunning ==
    /\ pc = [t \in Threads |-> "idle"]
    /\ args = [t \in Threads |-> NoArgs]
    /\ pixel = [t \in Threads |-> NoValue]
    /\ file_offset = [t \in Threads |-> NoValue]
    /\ fpos = [h \in Threads |-> Closed]
    /\ raw_bytes = [t \in Threads |-> NoValue]
    /\ io = [t \in Threads |-> NoIO]
    /\ outcome = [t \in Threads |-> NoValue]

Init ==
    /\ theater_config \in Configs
    /\ heightmap_path \in PathValues
    /\ _heightmap_data = None
    /\ KARNEY_AVAILABLE \in BOOLEAN
    /\ fs \in FileStates
    /\ (heightmap_path \in {None, ""} => fs.kind = "absent")
    /\ InitManager(NoInstallation)
    /\ pc = [t \in Threads |-> "idle"]
    /\ args = [t \in Threads |-> NoArgs]
    /\ pixel = [t \in Threads |-> NoValue]
    /\ file_offset = [t \in Threads |-> NoValue]
    /\ fpos = [h \in Threads |-> Closed]
    /\ raw_bytes = [t \in Threads |-> NoValue]
    /\ io = [t \in Threads |-> NoIO]
    /\ outcome = [t \in Threads |-> NoValue]

-----------------------------------------------------------------------------
(* get_elevation, lines 256-331 *)

\* Variant: only the path is looked at, not the file system.
_load_heightmap_PathOnly ==
    IF heightmap_path \in {None, ""} THEN FALSE ELSE TRUE

\* _load_heightmap, lines 250-254
_load_heightmap ==
    IF heightmap_path \in {None, ""} \/ ~PathExists(fs) THEN FALSE ELSE TRUE

\* The caller enters get_elevation(game_x, game_y, from_feet).
CallGetElevation(t) ==
    /\ pc[t] = "idle"
    /\ \E a \in ElevationInputs : args' = [args EXCEPT ![t] = a]
    /\ pc' = [pc EXCEPT ![t] = "ge_load"]
    /\ io' = [io EXCEPT ![t] = NoIO]
    /\ outcome' = [outcome EXCEPT ![t] = NoValue]
    /\ UNCHANGED <<converter, KARNEY_AVAILABLE, fs, manager, pixel, file_offset, fpos, raw_bytes>>

Finish(t, result) ==
    /\ pc' = [pc EXCEPT ![t] = "done"]
    /\ outcome' = [outcome EXCEPT ![t] = result]

\* Variant: the cache field is set once the file has been found.
LoadHeightmapEffect_Caches == _heightmap_data' = heightmap_path

\* _load_heightmap only checks that the file exists: it loads nothing.
LoadHeightmapEffect == _heightmap_data' = _heightmap_data

\* lines 272-273
GE_LoadHeightmap(t) ==
    /\ pc[t] = "ge_load"
    /\ LoadHeightmapEffect
    /\ IF ~_load_heightmap
       THEN Finish(t, Raise("HeightmapNotFoundError", "missing_file", NoValue))
       ELSE /\ pc' = [pc EXCEPT ![t] = "ge_compute"]
            /\ UNCHANGED outcome
    /\ UNCHANGED <<theater_config, heightmap_path, KARNEY_AVAILABLE, fs, manager, args, pixel,
                   file_offset, fpos, raw_bytes, io>>

\* lines 275-309 with the handler of lines 330-331
GE_Compute(t) ==
    /\ pc[t] = "ge_compute"
    /\ LET a == args[t]
           x_pos == ToFeet(a.x, a.from_feet)
           y_pos == ToFeet(a.y, a.from_feet)
       IN  IF ~HasKey(theater_config, "heightmap_bounds")
              \/ ~HasKey(theater_config, "heightmap_size")
           THEN \* KeyError, caught at line 330
                /\ Finish(t, Raise("HeightmapReadError", "KeyError", NoValue))
                /\ UNCHANGED <<pixel, file_offset>>
           ELSE LET bounds == theater_config.heightmap_bounds
                    width == theater_config.heightmap_size[1]
                    height == theater_config.heightmap_size[2]
                IN  IF OutOfBounds(bounds, x_pos, y_pos)
                    THEN /\ Finish(t, Raise("CoordinatesOutOfBoundsError", "out_of_bounds",
                                            [x |-> x_pos, y |-> y_pos, bounds |-> bounds]))
                         /\ UNCHANGED <<pixel, file_offset>>
                    ELSE IF bounds.max_x = bounds.min_x \/ bounds.max_y = bounds.min_y
                    THEN \* float division by zero: not caught by any handler
                         /\ Finish(t, Raise("ZeroDivisionError", "ZeroDivisionError", NoValue))
                         /\ UNCHANGED <<pixel, file_offset>>
                    ELSE LET px == PixelX(bounds, width, x_pos)
                             py == PixelY(bounds, height, y_pos)
                         IN  /\ pixel' = [pixel EXCEPT ![t] = <<px, py>>]
                             /\ file_offset' = [file_offset EXCEPT ![t] = FileOffset(width, px, py)]
                             /\ pc' = [pc EXCEPT ![t] = "ge_open"]
                             /\ UNCHANGED outcome
    /\ UNCHANGED <<converter, KARNEY_AVAILABLE, fs, manager, args, fpos, raw_bytes, io>>

\* line 313: open(self.heightmap_path, 'rb'); OSError is caught at line 322
GE_Open(t) ==
    /\ pc[t] = "ge_open"
    /\ io' = [io EXCEPT ![t].opens = @ + 1]
    /\ IF fs.kind # "regular"
       THEN /\ Finish(t, Raise("HeightmapReadError", "OSError", NoValue))
            /\ UNCHANGED fpos
       ELSE /\ fpos' = [fpos EXCEPT ![HandleOf(t)] = 0]
            /\ pc' = [pc EXCEPT ![t] = "ge_seek"]
            /\ UNCHANGED outcome
    /\ UNCHANGED <<converter, KARNEY_AVAILABLE, fs, manager, args, pixel, file_offset, raw_bytes>>

\* line 314: f.seek(file_offset).  (A seek on a closed handle is a
\* ValueError, which line 330 turns into HeightmapReadError.)
GE_Seek(t) ==
    /\ pc[t] = "ge_seek"
    /\ io' = [io EXCEPT ![t].seeks = @ + 1]
    /\ IF fpos[HandleOf(t)] = Closed
       THEN /\ Finish(t, Raise("HeightmapReadError", "ValueError", NoValue))
            /\ UNCHANGED fpos
       ELSE /\ fpos' = [fpos EXCEPT ![HandleOf(t)] = file_offset[t]]
            /\ pc' = [pc EXCEPT ![t] = "ge_read"]
            /\ UNCHANGED outcome
    /\ UNCHANGED <<converter, KARNEY_AVAILABLE, fs, manager, args, pixel, file_offset, raw_bytes>>

\* f.read(n) at cursor p: the bytes that are there, at most n
ReadAt(content, p, n) == SubSeq(content, p + 1, Min(p + n, Len(content)))

\* Variant: a short read answered with sea level.
ReadResult_DefaultZero(raw) ==
    IF Len(raw) # 2 THEN Return(0) ELSE Return(UnpackLE(raw))

\* lines 317-328: the length check, the decoding and the return
ReadResult(raw) ==
    IF Len(raw) # 2
    THEN Raise("HeightmapReadError", "short_read", Len(raw))
    ELSE Return(UnpackLE(raw))

\* lines 315-328: read, length check, decode, return; leaving the with
\* block closes the handle.  (A read on a closed handle is a ValueError,
\* which line 330 turns into HeightmapReadError.)
GE_Read(t) ==
    /\ pc[t] = "ge_read"
    /\ IF fpos[HandleOf(t)] = Closed
       THEN /\ Finish(t, Raise("HeightmapReadError", "ValueError", NoValue))
            /\ UNCHANGED raw_bytes
       ELSE LET raw == ReadAt(fs.content, fpos[HandleOf(t)], BYTES_PER_SAMPLE)
            IN  /\ raw_bytes' = [raw_bytes EXCEPT ![t] = raw]
                /\ Finish(t, ReadResult(raw))
    /\ fpos' = [fpos EXCEPT ![HandleOf(t)] = Closed]
    /\ io' = [io EXCEPT ![t].reads = @ + 1]
    /\ UNCHANGED <<converter, KARNEY_AVAILABLE, fs, manager, args, pixel, file_offset>>

\* The call has ended; the caller goes on and the frame is gone.
ReturnToCaller(t) ==
    /\ pc[t] = "done"
    /\ pc' = [pc EXCEPT ![t] = "idle"]
    /\ args' = [args EXCEPT ![t] = NoArgs]
    /\ pixel' = [pixel EXCEPT ![t] = NoValue]
    /\ file_offset' = [file_offset EXCEPT ![t] = NoValue]
    /\ raw_bytes' = [raw_bytes EXCEPT ![t] = NoValue]
    /\ io' = [io EXCEPT ![t] = NoIO]
    /\ outcome' = [outcome EXCEPT ![t] = NoValue]
    /\ UNCHANGED <<converter, KARNEY_AVAILABLE, fs, manager, fpos>>

GetElevationStep(t) ==
    \/ CallGetElevation(t)
    \/ GE_LoadHeightmap(t)
    \/ GE_Compute(t)
    \/ GE_Open(t)
    \/ GE_Seek(t)
    \/ GE_Read(t)
    \/ ReturnToCaller(t)

-----------------------------------------------------------------------------
(* The projection libraries.  pyproj and pygeodesy are not code of this     *)
(* repository: a library result is kept as the application that made it,    *)
(* and arithmetic on it as a linear form scale * base + plus.                *)

Sym(base) == [base |-> base, scale |-> R(1), plus |-> R(0)]
SymScale(sv, r) == [sv EXCEPT !.scale = RMul(@, r), !.plus = RMul(@, r)]
SymAdd(sv, r) == [sv EXCEPT !.plus = RAdd(@, r)]

\* self.proj = Proj(projection_string); self.proj(x, y, inverse=True)
ProjInverse(proj_str, x_m, y_m, part) ==
    [fn |-> "Proj.inverse", proj |-> proj_str, a |-> x_m, b |-> y_m, part |-> part]

\* self.proj(lon, lat)
ProjForward(proj_str, lon, lat, part) ==
    [fn |-> "Proj.forward", proj |-> proj_str, a |-> lon, b |-> lat, part |-> part]

\* KTransverseMercator(a_earth=WGS84, lon0=lon0, k0=k0).forward(lat, lon, lon0_arg)
KtmForward(lon0, k0, lat, lon, lon0_arg, part) ==
    [fn |-> "ktm.forward", lon0 |-> lon0, k0 |-> k0, a |-> lat, b |-> lon,
     lon0_arg |-> lon0_arg, part |-> part]

\* ktm.reverse(x, y, lon0_arg)
KtmReverse(lon0, k0, x, y, lon0_arg, part) ==
    [fn |-> "ktm.reverse", lon0 |-> lon0, k0 |-> k0, a |-> x, b |-> y,
     lon0_arg |-> lon0_arg, part |-> part]

-----------------------------------------------------------------------------
(* parse_proj_str, lines 89-100 *)

\* Variant: a repeated key keeps its first value.
parse_proj_str_FirstWins(proj_str) ==
    LET plus == { i \in 1..Len(proj_str) : proj_str[i].plus }
        keys == { proj_str[i].key : i \in plus }
        first(k) == CHOOSE i \in plus :
                      /\ proj_str[i].key = k
                      /\ \A j \in plus : proj_str[j].key = k => i <= j
    IN  [k \in keys |-> proj_str[first(k)].val]

\* params[key] = val for every token that starts with "+", in order: a
\* repeated key keeps its last value.
parse_proj_str(proj_str) ==
    LET plus == { i \in 1..Len(proj_str) : proj_str[i].plus }
        keys == { proj_str[i].key : i \in plus }
        last(k) == CHOOSE i \in plus :
                     /\ proj_str[i].key = k
                     /\ \A j \in plus : proj_str[j].key = k => j <= i
    IN  [k \in keys |-> proj_str[last(k)].val]

\* dict.get(key, default)
Get(d, k, default) == IF k \in DOMAIN d THEN d[k] ELSE default

-----------------------------------------------------------------------------
(* np.float32(v), lines 106-107: the nearest number with a 24-bit           *)
(* significand, ties to even.  Defined for |v| below 2^24 and, unless 0,    *)
(* not below 2^-7, which covers game coordinates.                           *)

F32_MIN_SIGNIFICAND == 8388608  \* 2^23

\* <<q, rem, k>>: q = floor(v * 2^k) with 2^23 <= q, rem the remainder over d
RECURSIVE F32Scale(_, _, _, _)
F32Scale(q, rem, d, k) ==
    IF q >= F32_MIN_SIGNIFICAND \/ k >= 30
    THEN <<q, rem, k>>
    ELSE F32Scale(2 * q + (IF 2 * rem >= d THEN 1 ELSE 0), (2 * rem) % d, d, k + 1)

Float32Abs(n, d) ==
    IF n = 0 THEN R(0)
    ELSE LET s == F32Scale(n \div d, n % d, d, 0)
             up == (2 * s[2] > d) \/ (2 * s[2] = d /\ s[1] % 2 = 1)
         IN  RNorm(IF up THEN s[1] + 1 ELSE s[1], 2 ^ s[3])

Float32(v) == IF v.n >= 0 THEN Float32Abs(v.n, v.d) ELSE RNeg(Float32Abs(-v.n, v.d))

(* game_to_latlon, lines 102-115; game_x, game_y are rationals *)

game_to_latlon(cfg, game_x, game_y, from_feet) ==
    LET game_x_m == IF from_feet THEN feet_to_meters(Float32(game_x)) ELSE game_x
        game_y_m == IF from_feet THEN feet_to_meters(Float32(game_y)) ELSE game_y
    IN  << ProjInverse(cfg.projection_string, game_x_m, game_y_m, "lat"),
           ProjInverse(cfg.projection_string, game_x_m, game_y_m, "lon") >>

(* latlon_to_game, lines 217-225 *)

latlon_to_game(cfg, lat, lon, to_feet) ==
    LET game_x_m == Sym(ProjForward(cfg.projection_string, lon, lat, "x"))
        game_y_m == Sym(ProjForward(cfg.projection_string, lon, lat, "y"))
        ft == RNorm(FT_TO_METERS_NUM, DECIMALS_5)
    IN  IF to_feet
        THEN << SymScale(game_x_m, RDiv(R(1), ft)), SymScale(game_y_m, RDiv(R(1), ft)) >>
        ELSE << game_x_m, game_y_m >>

(* get_map_corners, lines 227-248 *)

CornerNames == {"sw", "se", "nw", "ne"}

\* Variant: the north-west and south-east corners exchanged.
Corners_Swapped(bounds) ==
    [c \in CornerNames |->
        CASE c = "sw" -> <<bounds.min_x, bounds.min_y>>
          [] c = "se" -> <<bounds.min_x, bounds.max_y>>
          [] c = "nw" -> <<bounds.max_x, bounds.min_y>>
          [] c = "ne" -> <<bounds.max_x, bounds.max_y>>]

\* lines 232-237
Corners(bounds) ==
    [c \in CornerNames |->
        CASE c = "sw" -> <<bounds.min_x, bounds.min_y>>
          [] c = "se" -> <<bounds.max_x, bounds.min_y>>
          [] c = "nw" -> <<bounds.min_x, bounds.max_y>>
          [] c = "ne" -> <<bounds.max_x, bounds.max_y>>]

get_map_corners(cfg, in_feet) ==
    IF ~HasKey(cfg, "heightmap_bounds")
    THEN Raise("KeyError", "KeyError", "heightmap_bounds")
    ELSE LET corners == Corners(cfg.heightmap_bounds)
         IN  Return([c \in CornerNames |->
                       [game |-> corners[c],
                        latlon |-> game_to_latlon(cfg, R(corners[c][1]), R(corners[c][2]),
                                                  in_feet)]])

-----------------------------------------------------------------------------
(* game_to_latlon_grid_karney, lines 117-215 *)

\* The methods class CoordinateConverter defines: self.<name> for any other
\* name raises AttributeError.
CoordinateConverterMethods ==
    { "__init__", "feet_to_meters", "meters_to_feet", "parse_proj_str",
      "game_to_latlon", "game_to_latlon_grid_karney", "latlon_to_game",
      "get_map_corners", "_load_heightmap", "get_elevation", "format_coordinates" }

\* bool(v) of a config value fetched with .get(key): None and 0 are false
Truthy(cfg, k) == HasKey(cfg, k) /\ cfg[k].n # 0

\* lines 132-143: the grid constants, from the config or derived
GridConstants(cfg, heightmap_samples) ==
    IF /\ Truthy(cfg, "theater_size_meters") /\ Truthy(cfg, "meter_res")
       /\ Truthy(cfg, "grid_to_ft") /\ Truthy(cfg, "ft_to_grid")
    THEN [theater_size_meters |-> cfg.theater_size_meters,
          meter_res |-> cfg.meter_res,
          grid_to_ft |-> cfg.grid_to_ft,
          ft_to_grid |-> cfg.ft_to_grid]
    ELSE LET theater_size_km == Get(cfg, "theater_size_km", R(THEATER_SIZE_KM_DEFAULT))
             theater_size_meters == RMul(theater_size_km, R(1000))
             meter_res == RDiv(theater_size_meters, R(heightmap_samples))
             grid_to_ft == RMul(meter_res, RNorm(METERS_TO_FT_NUM, DECIMALS_5))
         IN  [theater_size_meters |-> theater_size_meters,
              meter_res |-> meter_res,
              grid_to_ft |-> grid_to_ft,
              ft_to_grid |-> RDiv(R(1), grid_to_ft)]

\* Variant: z is flipped once only (the flip of line 165 left out).
GridPlanar_SingleFlip(gc, heightmap_samples, sim_x, sim_y) ==
    LET heightmap_size_minus_one == heightmap_samples - 1
        grid_offset == RNorm(heightmap_size_minus_one, 2)
        half == RNorm(heightmap_size_minus_one, 2)
        grid_y == RAdd(RNeg(grid_offset), RMul(sim_y, gc.ft_to_grid))
        grid_x == RAdd(RNeg(grid_offset), RMul(sim_x, gc.ft_to_grid))
        x1 == RAdd(grid_x, half)
        z1 == RSub(grid_y, half)
        x2 == RMul(x1, gc.meter_res)
        z2 == RMul(z1, gc.meter_res)
    IN  << x2, RSub(gc.theater_size_meters, z2) >>

\* lines 145-177: planar meters <<x, z>> before the projection offsets
GridPlanar(gc, heightmap_samples, sim_x, sim_y) ==
    LET heightmap_size_minus_one == heightmap_samples - 1
        grid_offset == RNorm(heightmap_size_minus_one, 2)
        half == RNorm(heightmap_size_minus_one, 2)
        grid_y == RAdd(RNeg(grid_offset), RMul(sim_y, gc.ft_to_grid))
        grid_x == RAdd(RNeg(grid_offset), RMul(sim_x, gc.ft_to_grid))
        x1 == RAdd(grid_x, half)
        z1 == RSub(R(0), RSub(grid_y, half))
        x2 == RMul(x1, gc.meter_res)
        z2 == RMul(z1, gc.meter_res)
    IN  << x2, RSub(gc.theater_size_meters, z2) >>

\* float(v) of a descriptor value: a number, or TypeError for None and
\* ValueError for text that is no number
FloatError(val) ==
    IF val.kind = "none" THEN "TypeError"
    ELSE IF val.kind = "text" THEN "ValueError" ELSE NoValue

\* Variant: the nominal false origin of the descriptor taken as the offset.
ProjectionOffset_Nominal(params, origin_key, center_proj, half_size) ==
    IF origin_key \in DOMAIN params /\ params[origin_key].kind = "num"
    THEN SymAdd(center_proj, RNeg(params[origin_key].v))
    ELSE SymAdd(center_proj, RNeg(half_size))

\* lines 201-203: offset = center projection - theater_size_meters / 2.0;
\* the descriptor's x_0 / y_0 (origin_key) are not read
ProjectionOffset(params, origin_key, center_proj, half_size) ==
    SymAdd(center_proj, RNeg(half_size))

\* lines 126-215, the path with the high-precision projector
GridKarneyExact(cfg, game_x, game_y, from_feet) ==
    IF ~HasKey(cfg, "heightmap_size")
    THEN Raise("KeyError", "KeyError", "heightmap_size")
    ELSE
    LET heightmap_samples == cfg.heightmap_size[1]
        gc == GridConstants(cfg, heightmap_samples)
        sim_x == IF from_feet THEN R(game_x) ELSE meters_to_feet(R(game_x))
        sim_y == IF from_feet THEN R(game_y) ELSE meters_to_feet(R(game_y))
        xz == GridPlanar(gc, heightmap_samples, sim_x, sim_y)
        center_lat == Get(cfg, "center_lat", RNorm(385, 10))
        center_lon == Get(cfg, "center_lon", RNorm(1275, 10))
        params == parse_proj_str(cfg.projection_string)
        lon0v == Get(params, "lon_0", NumVal(center_lon))
        k0v == Get(params, "k", Get(params, "k_0", NumVal(RNorm(9996, 10000))))
    IN  IF FloatError(lon0v) # NoValue
        THEN Raise(FloatError(lon0v), FloatError(lon0v), "lon_0")
        ELSE IF FloatError(k0v) # NoValue
        THEN Raise(FloatError(k0v), FloatError(k0v), "k")
        ELSE
        LET lon0 == lon0v.v
            k0 == k0v.v
            half_size == RDiv(gc.theater_size_meters, R(2))
            center_x_proj == Sym(KtmForward(lon0, k0, center_lat, center_lon, center_lon, "easting"))
            center_y_proj == Sym(KtmForward(lon0, k0, center_lat, center_lon, center_lon, "northing"))
            offset_x == ProjectionOffset(params, "x_0", center_x_proj, half_size)
            offset_y == ProjectionOffset(params, "y_0", center_y_proj, half_size)
            final_x == SymAdd(offset_x, xz[1])
            final_y == SymAdd(offset_y, xz[2])
        IN  Return(<< KtmReverse(lon0, k0, final_x, final_y, center_lon, "lat"),
                      KtmReverse(lon0, k0, final_x, final_y, center_lon, "lon") >>)

\* lines 122-124: without pygeodesy the method delegates to
\* self.game_to_latlon_grid_based
game_to_latlon_grid_karney(cfg, karney, game_x, game_y, from_feet) ==
    IF ~karney
    THEN IF "game_to_latlon_grid_based" \in CoordinateConverterMethods
         THEN Return(game_to_latlon(cfg, R(game_x), R(game_y), from_feet))
         ELSE Raise("AttributeError", "AttributeError", "game_to_latlon_grid_based")
    ELSE GridKarneyExact(cfg, game_x, game_y, from_feet)

-----------------------------------------------------------------------------
(* The one-step operations as actions *)

CornerXs == {MinX, MaxX}
CornerYs == {MinY, MaxY}

GameInputs(op) ==
    { [op |-> op, x |-> x, y |-> y, from_feet |-> TRUE] : x \in CornerXs, y \in CornerYs }
    \cup { [op |-> op, x |-> x, y |-> y, from_feet |-> FALSE] :
             x \in 0..MaxMeters, y \in 0..MaxMeters }

LatLonInputs ==
    { [op |-> "latlon_to_game", x |-> R(lat), y |-> R(lon), from_feet |-> f] :
        lat \in {38}, lon \in {127, 128}, f \in BOOLEAN }

CornerInputs ==
    { [op |-> "get_map_corners", x |-> NoValue, y |-> NoValue, from_feet |-> f] :
        f \in BOOLEAN }

\* A call that runs to its end in one step.
RunCall(t, a, result) ==
    /\ pc[t] = "idle"
    /\ args' = [args EXCEPT ![t] = a]
    /\ io' = [io EXCEPT ![t] = NoIO]
    /\ Finish(t, result)
    /\ UNCHANGED <<converter, KARNEY_AVAILABLE, fs, manager, pixel, file_offset, fpos, raw_bytes>>

\* Values handed to the unit conversions: whole numbers, a fraction, and a
\* value with a half of the size of a theater coordinate.
UnitInputs == { R(i) : i \in 0..MaxMeters } \cup { RNorm(1, 2), RNorm(67173, 2) }

UnitCall(op, v) == [op |-> op, x |-> v, y |-> NoValue, from_feet |-> FALSE]

FeetToMeters(t) ==
    /\ pc[t] = "idle"
    /\ \E v \in UnitInputs :
           RunCall(t, UnitCall("feet_to_meters", v), Return(feet_to_meters(v)))

MetersToFeet(t) ==
    /\ pc[t] = "idle"
    /\ \E v \in UnitInputs :
           RunCall(t, UnitCall("meters_to_feet", v), Return(meters_to_feet(v)))

GameToLatLon(t) ==
    /\ pc[t] = "idle"
    /\ \E a \in GameInputs("game_to_latlon") :
           RunCall(t, a, Return(game_to_latlon(theater_config, R(a.x), R(a.y), a.from_feet)))

LatLonToGame(t) ==
    /\ pc[t] = "idle"
    /\ \E a \in LatLonInputs :
           RunCall(t, a, Return(latlon_to_game(theater_config, a.x, a.y, a.from_feet)))

\* The planar meters self.proj(lon, lat) gives for the sample points: the
\* projection is not code of this repository, so its results are inputs.
\* Eastings and northings of the size of a theater (about 915 km); in feet
\* the first easting is 3001725.113..., the other values are 3001725 exactly.
PlanarSamples ==
    [lon \in {127, 128} |->
        IF lon = 128
        THEN << RNorm(404503351, 442), RNorm(457582959, 500) >>
        ELSE << RNorm(457582959, 500), RNorm(457582959, 500) >>]

\* The number a library result stands for.
Planar(base) ==
    LET p == PlanarSamples[base.a.n \div base.a.d]
    IN  IF base.part = "x" THEN p[1] ELSE p[2]

Eval(sv) == RAdd(RMul(Planar(sv.base), sv.scale), sv.plus)

\* A caller converts (lat, lon) to game coordinates and converts these back:
\* latlon_to_game (lines 217-225), then game_to_latlon (lines 102-115).
RoundTripLatLon(t) ==
    /\ pc[t] = "idle"
    /\ \E a \in LatLonInputs :
           LET game == latlon_to_game(theater_config, a.x, a.y, a.from_feet)
               game_x == Eval(game[1])
               game_y == Eval(game[2])
           IN  RunCall(t, [a EXCEPT !.op = "round_trip"],
                       Return([forward |-> << Planar(game[1].base), Planar(game[2].base) >>,
                               game |-> << game_x, game_y >>,
                               latlon |-> game_to_latlon(theater_config, game_x, game_y,
                                                         a.from_feet)]))

GetMapCorners(t) ==
    /\ pc[t] = "idle"
    /\ \E a \in CornerInputs :
           RunCall(t, a, get_map_corners(theater_config, a.from_feet))

GameToLatLonGridKarney(t) ==
    /\ pc[t] = "idle"
    /\ \E a \in GameInputs("game_to_latlon_grid_karney") :
           RunCall(t, a, game_to_latlon_grid_karney(theater_config, KARNEY_AVAILABLE,
                                                    a.x, a.y, a.from_feet))

-----------------------------------------------------------------------------
(* generate_tacview_xml, eval_airbases_to_tacview_final.py lines 21-154 *)

\* What get_elevation gives for arguments a when nothing else runs.
ElevationAlone(cfg, path, f, a) ==
    IF path \in {None, ""} \/ f.kind = "absent"
    THEN Raise("HeightmapNotFoundError", "missing_file", NoValue)
    ELSE IF ~HasKey(cfg, "heightmap_bounds") \/ ~HasKey(cfg, "heightmap_size")
    THEN Raise("HeightmapReadError", "KeyError", NoValue)
    ELSE LET b == cfg.heightmap_bounds
             x_pos == ToFeet(a.x, a.from_feet)
             y_pos == ToFeet(a.y, a.from_feet)
         IN  IF OutOfBounds(b, x_pos, y_pos)
             THEN Raise("CoordinatesOutOfBoundsError", "out_of_bounds",
                        [x |-> x_pos, y |-> y_pos, bounds |-> b])
             ELSE IF f.kind # "regular"
             THEN Raise("HeightmapReadError", "OSError", NoValue)
             ELSE ReadResult(ReadAt(f.content,
                                    FileOffset(cfg.heightmap_size[1],
                                               PixelX(b, cfg.heightmap_size[1], x_pos),
                                               PixelY(b, cfg.heightmap_size[2], y_pos)),
                                    BYTES_PER_SAMPLE))

\* One airbase: its id, its position in game feet and the offsets of its
\* runways from that position.
AirbaseInside ==
    [id |-> 1, x |-> MinX, y |-> MinY, runways |-> << [x |-> 1, y |-> 1] >>]

\* An airbase on the corner of the bounds: its first runway lies outside,
\* its second inside.
AirbaseOnCorner ==
    [id |-> 2, x |-> MaxX, y |-> MaxY,
     runways |-> << [x |-> 1, y |-> 0], [x |-> -1, y |-> 0] >>]

AirbaseOutside ==
    [id |-> 3, x |-> MaxX + 1, y |-> MinY, runways |-> << >>]

AirbaseLists ==
    { << >>, << AirbaseInside >>, << AirbaseOnCorner >>,
      << AirbaseOutside, AirbaseInside >>, << AirbaseInside, AirbaseOnCorner >> }

\* converter.get_elevation(x, y, from_feet=True) as lines 47 and 101-105 call it
ElevationAt(cfg, path, f, x, y) ==
    ElevationAlone(cfg, path, f, [x |-> x, y |-> y, from_feet |-> TRUE])

\* Lines 93-107, from runway number i on: each runway's elevation is looked
\* up and its object appended; an exception leaves the loop and is caught at
\* line 146, after which the next airbase is taken.  (The test of line 106,
\* runway_elevation < -900, is never true of an unsigned sample.)
RECURSIVE RunwayObjects(_, _, _, _, _)
RunwayObjects(cfg, path, f, ab, i) ==
    IF i > Len(ab.runways) THEN << >>
    ELSE LET e == ElevationAt(cfg, path, f, ab.x + ab.runways[i].x,
                              ab.y + ab.runways[i].y)
         IN  IF e.kind = "raise" THEN << >>
             ELSE << [type |-> "Runway", of |-> ab.id, no |-> i, altitude |-> e.value] >>
                  \o RunwayObjects(cfg, path, f, ab, i + 1)

\* Lines 43-146 for one airbase: the elevation lookup of line 47 comes before
\* the Airport object is created at line 59 and stands inside the try of
\* line 42, so when it raises nothing is emitted for the airbase.  (The test
\* of line 48, elevation < -900, is never true of an unsigned sample.)
AirbaseObjects(cfg, path, f, ab) ==
    LET e == ElevationAt(cfg, path, f, ab.x, ab.y)
    IN  IF e.kind = "raise" THEN << >>
        ELSE << [type |-> "Airport", of |-> ab.id, no |-> 0, altitude |-> e.value] >>
             \o RunwayObjects(cfg, path, f, ab, 1)

\* The children of the root element, in order; altitudes in feet
RECURSIVE generate_tacview_xml(_, _, _, _)
generate_tacview_xml(cfg, path, f, airbases) ==
    IF airbases = << >> THEN << >>
    ELSE AirbaseObjects(cfg, path, f, Head(airbases))
         \o generate_tacview_xml(cfg, path, f, Tail(airbases))

GenerateTacviewXml(t) ==
    /\ pc[t] = "idle"
    /\ \E airbases \in AirbaseLists :
           RunCall(t, [op |-> "generate_tacview_xml", airbases |-> airbases],
                   Return(generate_tacview_xml(theater_config, heightmap_path, fs, airbases)))

-----------------------------------------------------------------------------
(* Degree / minute output: to_dms (eval_airbases_to_tacview_final.py 24-28)
   and format_coordinates (coordinate_converter.py 333-358) *)

MINUTES_PER_DEGREE == 60
FOUR_DECIMALS == 10000          \* .4f
TWO_DECIMALS == 100             \* .2f
SIX_DECIMALS == 1000000         \* .6f

\* The digits of f"{a:.Nf}" for a >= 0, as a whole number of 1/scale:
\* rounded to nearest, an exactly representable tie to even.
FixedDigits(a, scale) ==
    LET q == a.n \div a.d
        scaled == (a.n % a.d) * scale
        fl == scaled \div a.d
        rem == scaled % a.d
        up == IF 2 * rem > a.d THEN 1
              ELSE IF 2 * rem = a.d THEN fl % 2
              ELSE 0
    IN  q * scale + fl + up

\* f"{a:.Nf}": a minus sign when a is below zero, then the digits.
FixedText(a, scale) == [minus |-> a.n < 0, digits |-> FixedDigits(RAbs(a), scale)]

\* to_dms: the text f"{d}° {m:.4f}'" as its two numbers (an int prints "-"
\* only when it is below zero).
to_dms(deg) ==
    LET d == IntTrunc(deg)
        mn == RAbs(RMul(RSub(deg, R(d)), R(MINUTES_PER_DEGREE)))
    IN  [minus |-> d < 0, degrees |-> Abs(d), minutes |-> FixedDigits(mn, FOUR_DECIMALS)]

\* dd_to_dms, lines 342-347
dd_to_dms(dd) ==
    LET degrees == IntTrunc(dd)
        minutes_float == RMul(RAbs(RSub(dd, R(degrees))), R(MINUTES_PER_DEGREE))
        minutes == IntTrunc(minutes_float)
        seconds == RMul(RSub(minutes_float, R(minutes)), R(MINUTES_PER_DEGREE))
    IN  <<degrees, minutes, seconds>>

\* One half of dms_str: f"{d}° {m}' {s:.2f}\""
DmsText(dms) ==
    [minus |-> dms[1] < 0, degrees |-> Abs(dms[1]), minutes |-> dms[2],
     seconds |-> FixedText(dms[3], TWO_DECIMALS)]

format_coordinates(lat, lon, include_dms) ==
    LET decimal == <<lat, lon>>
        decimal_str == <<FixedText(lat, SIX_DECIMALS), FixedText(lon, SIX_DECIMALS)>>
    IN  IF include_dms
        THEN [decimal |-> decimal, decimal_str |-> decimal_str,
              dms |-> [lat |-> dd_to_dms(lat), lon |-> dd_to_dms(lon)],
              dms_str |-> <<DmsText(dd_to_dms(lat)), DmsText(dd_to_dms(lon))>>]
        ELSE [decimal |-> decimal, decimal_str |-> decimal_str]

\* Decimal degrees on both sides of zero, inside and outside (-1, 1).
DegreeInputs ==
    { R(0), RNorm(1, 2), RNorm(-1, 2), RNorm(1, 4), RNorm(-1, 4),
      RNorm(3, 2), RNorm(-3, 2), RNorm(75, 2), RNorm(-75, 2), RNorm(509, 4) }

\* A value whose minutes print as 60.0000.
AlmostOneDegree == RNorm(1499999, 1500000)

\* lines 84-85 and 114-115: the text of a Latitude / Longitude element
ToDms(t) ==
    /\ pc[t] = "idle"
    /\ \E deg \in DegreeInputs \cup {AlmostOneDegree, RNeg(AlmostOneDegree)} :
           RunCall(t, [op |-> "to_dms", deg |-> deg], Return(to_dms(deg)))

FormatCoordinates(t) ==
    /\ pc[t] = "idle"
    /\ \E lat \in DegreeInputs, lon \in {RNorm(-1, 2), RNorm(509, 4)}, include_dms \in BOOLEAN :
           RunCall(t, [op |-> "format_coordinates", lat |-> lat, lon |-> lon,
                       include_dms |-> include_dms],
                   Return(format_coordinates(lat, lon, include_dms)))

-----------------------------------------------------------------------------
(* TheaterConfigManager.get_theater_config, src/src/theater_config.py 69-93 *)

\* Names callers pass, in several spellings.
TheaterNames == {"korea", "Korea", "KOREA", "balkans", "nevada", "Nevada", "mars"}

\* str.lower()
Lower(name) ==
    CASE name \in {"korea", "Korea", "KOREA"} -> "korea"
      [] name \in {"nevada", "Nevada"} -> "nevada"
      [] OTHER -> name

\* Theaters an installation can define in Theater.lst.
BmsTheaterKeys == {"korea", "nevada"}

\* What _load_theater_from_bms_files meets for a theater: no matching
\* definition (None), an exception, or files that yield a config.
LoadKinds == {"none", "raises", "config"}

\* A bare int n where a (width, height) pair is expected: a sequence of one
\* number stands for it.
BareInt(n) == <<n>>

\* The config the files of theater k yield (_load_theater_from_bms_files,
\* lines 195-216): what the TDF file and Theater.txt give, completed by
\* _enhance_config_from_static (lines 350-398).  Theater.txt gives the center,
\* the grid fields and, when it declares HeightmapSize, heightmap_size as one
\* int (line 321); lines 355-357 take every key still missing from the
\* static entry of k, heightmap_bounds (the entry's own dict) among them;
\* lines 376-383 supply defaults to a theater the static table lacks.
BmsLoaded(files, static, k) ==
    LET txt == IF k = "korea" THEN BmsConfig(MaxW, MaxH) ELSE BmsConfig(1, 1)
    IN  [txt EXCEPT
            !.heightmap_size = IF k \in files.sized THEN BareInt(@[1])
                               ELSE IF k \in DOMAIN static THEN static[k].heightmap_size
                               ELSE @,
            !.heightmap_bounds = IF k \in DOMAIN static THEN static[k].heightmap_bounds
                                 ELSE @]

Installations ==
    { NoInstallation }
    \cup { [installed |-> TRUE, theaters |-> th, sized |-> {}] :
                th \in [BmsTheaterKeys -> LoadKinds] }

\* is_bms_installation_available, lines 33-40: computed once, then kept
is_bms_installation_available(available, files) ==
    IF available = None
    THEN (IF files.installed THEN "True" ELSE "False")
    ELSE available

\* _load_theater_from_bms_files(theater_name): the kind of its result
LoadKind(files, theater_name) ==
    IF theater_name \in DOMAIN files.theaters
    THEN files.theaters[theater_name] ELSE "none"

CachePut(cache, k, config) ==
    [n \in DOMAIN cache \cup {k} |-> IF n = k THEN config ELSE cache[n]]

\* Variant: every call resolves the name anew and stores what it found.
get_theater_config_Uncached(cache, available, files, static, name) ==
    LET theater_name == Lower(name)
        avail == is_bms_installation_available(available, files)
    IN  IF avail = "True" /\ LoadKind(files, theater_name) = "config"
        THEN [result |-> Return(BmsLoaded(files, static, theater_name)),
              cache |-> CachePut(cache, theater_name, BmsLoaded(files, static, theater_name)),
              available |-> avail]
        ELSE IF theater_name \in DOMAIN static
        THEN [result |-> Return(static[theater_name]),
              cache |-> CachePut(cache, theater_name, static[theater_name]),
              available |-> avail]
        ELSE [result |-> Raise("ValueError", "ValueError", theater_name),
              cache |-> cache, available |-> avail]

\* Variant: the static table is asked before the installation files.
get_theater_config_StaticFirst(cache, available, files, static, name) ==
    LET theater_name == Lower(name)
        avail == is_bms_installation_available(available, files)
    IN  IF theater_name \in DOMAIN cache
        THEN [result |-> Return(cache[theater_name]), cache |-> cache,
              available |-> available]
        ELSE IF theater_name \in DOMAIN static
        THEN [result |-> Return(static[theater_name]),
              cache |-> CachePut(cache, theater_name, static[theater_name]),
              available |-> avail]
        ELSE IF avail = "True" /\ LoadKind(files, theater_name) = "config"
        THEN [result |-> Return(BmsLoaded(files, static, theater_name)),
              cache |-> CachePut(cache, theater_name, BmsLoaded(files, static, theater_name)),
              available |-> avail]
        ELSE [result |-> Raise("ValueError", "ValueError", theater_name),
              cache |-> cache, available |-> avail]

\* lines 69-93: the result, and the manager's fields after the call
get_theater_config(cache, available, files, static, name) ==
    LET theater_name == Lower(name)
        avail == is_bms_installation_available(available, files)
    IN  IF theater_name \in DOMAIN cache
        THEN [result |-> Return(cache[theater_name]), cache |-> cache,
              available |-> available]
        ELSE IF avail = "True" /\ LoadKind(files, theater_name) = "config"
        THEN [result |-> Return(BmsLoaded(files, static, theater_name)),
              cache |-> CachePut(cache, theater_name, BmsLoaded(files, static, theater_name)),
              available |-> avail]
        ELSE IF theater_name \in DOMAIN static
        THEN [result |-> Return(static[theater_name]),
              cache |-> CachePut(cache, theater_name, static[theater_name]),
              available |-> avail]
        ELSE [result |-> Raise("ValueError", "ValueError", theater_name),
              cache |-> cache, available |-> avail]

GetTheaterConfig(t) ==
    /\ pc[t] = "idle"
    /\ \E name \in TheaterNames :
          LET r == get_theater_config(_theater_cache, _bms_available,
                                      bms_files[falcon_bms_root], static_configs, name)
          IN  /\ args' = [args EXCEPT ![t] = [op |-> "get_theater_config", name |-> name]]
              /\ _theater_cache' = r.cache
              /\ _bms_available' = r.available
              /\ Finish(t, r.result)
    /\ io' = [io EXCEPT ![t] = NoIO]
    /\ UNCHANGED <<converter, KARNEY_AVAILABLE, fs, falcon_bms_root,
                   src_theater_config_root, environment, pixel, file_offset, fpos,
                   raw_bytes>>

-----------------------------------------------------------------------------
(* The module-level API of theater_config.py, lines 400-423 *)

\* Arguments a caller passes for a root: a directory, or "" (falsy).
RootArguments == Roots \cup {""}

\* TheaterConfigManager.__init__, line 29: falcon_bms_root or DEFAULT_FALCON_BMS_ROOT
ManagerRoot(path) == IF path \in {"", None} THEN DEFAULT_FALCON_BMS_ROOT ELSE path

\* A call on _config_manager that runs to its end in one step and leaves the
\* manager with the given cache and availability.
ManagerCall(t, a, result, cache, available) ==
    /\ pc[t] = "idle"
    /\ args' = [args EXCEPT ![t] = a]
    /\ io' = [io EXCEPT ![t] = NoIO]
    /\ _theater_cache' = cache
    /\ _bms_available' = available
    /\ Finish(t, result)
    /\ UNCHANGED <<KARNEY_AVAILABLE, fs, environment, pixel, file_offset, fpos, raw_bytes>>

\* set_falcon_bms_root(path), lines 416-419: a new manager replaces the old
SetFalconBmsRoot(t) ==
    /\ pc[t] = "idle"
    /\ \E path \in RootArguments :
           /\ ManagerCall(t, [op |-> "set_falcon_bms_root", path |-> path], Return(None),
                          <<>>, None)
           /\ falcon_bms_root' = ManagerRoot(path)
           /\ UNCHANGED <<converter, src_theater_config_root>>

\* is_bms_installation_available(), lines 421-423
IsBmsInstallationAvailable(t) ==
    /\ pc[t] = "idle"
    /\ LET avail == is_bms_installation_available(_bms_available, bms_files[falcon_bms_root])
       IN  /\ ManagerCall(t, [op |-> "is_bms_installation_available"], Return(avail),
                          _theater_cache, avail)
           /\ UNCHANGED <<converter, falcon_bms_root, src_theater_config_root>>

\* get_available_theaters, lines 42-67: the keys Theater.lst yields when the
\* installation is there, and the keys of the static table
get_available_theaters(available, files, static) ==
    LET avail == is_bms_installation_available(available, files)
    IN  (IF avail = "True"
         THEN { k \in DOMAIN files.theaters : files.theaters[k] # "none" }
         ELSE {})
        \cup DOMAIN static

GetAvailableTheaters(t) ==
    /\ ManagerCall(t, [op |-> "get_available_theaters"],
                   Return(get_available_theaters(_bms_available,
                                                 bms_files[falcon_bms_root],
                                                 static_configs)),
                   _theater_cache,
                   is_bms_installation_available(_bms_available,
                                                 bms_files[falcon_bms_root]))
    /\ UNCHANGED <<converter, falcon_bms_root, src_theater_config_root>>

\* get_theater_paths, lines 95-108: the config's files below the root
get_theater_paths(root, lookup) ==
    IF lookup.kind = "raise" THEN lookup
    ELSE Return([base_path |-> root, config |-> lookup.value])

GetTheaterPaths(t) ==
    /\ pc[t] = "idle"
    /\ \E name \in TheaterNames :
           LET r == get_theater_config(_theater_cache, _bms_available,
                                       bms_files[falcon_bms_root], static_configs, name)
           IN  /\ ManagerCall(t, [op |-> "get_theater_paths", name |-> name],
                              get_theater_paths(falcon_bms_root, r.result),
                              r.cache, r.available)
               /\ UNCHANGED <<converter, falcon_bms_root, src_theater_config_root>>

-----------------------------------------------------------------------------
(* CoordinateConverter.__init__, coordinate_converter.py lines 50-77 *)

\* How coordinate_converter.py was imported (lines 11-18 and 65):
\*   "package":  as src.utils.coordinate_converter with src/ on sys.path:
\*               "..theater_config" is the one module the API lives in;
\*   "split":    as src.utils.coordinate_converter without src/ on sys.path:
\*               line 13 fails, lines 16-18 import a top-level theater_config,
\*               and line 65 later imports src.theater_config, a second copy
\*               of the module with a _config_manager of its own;
\*   "toplevel": as utils.coordinate_converter (what the scripts of the
\*               repository do): "..theater_config" is beyond the top-level
\*               package and line 65 raises ImportError.
ImportModes == {"package", "split", "toplevel"}

\* A Python argument: None, a str or a dict.
ArgNone == [kind |-> "none", v |-> NoValue]
ArgStr(str) == [kind |-> "str", v |-> str]
ArgDict(d) == [kind |-> "dict", v |-> d]

ArgValue(a) == IF a.kind = "none" THEN None ELSE a.v

\* bool(a)
ArgTruthy(a) ==
    CASE a.kind = "none" -> FALSE
      [] a.kind = "str" -> a.v # ""
      [] a.kind = "dict" -> DOMAIN a.v # {}

\* Line 72: Proj(self.theater_config['projection_string']) on what was stored
ProjOf(stored) ==
    CASE stored.kind = "str" -> Raise("TypeError", "TypeError", "projection_string")
      [] stored.kind = "dict" /\ ~HasKey(stored.v, "projection_string") ->
            Raise("KeyError", "KeyError", "projection_string")
      [] OTHER -> Return(stored.v.projection_string)

\* Lines 59-77.  a: the four parameters theater_name, theater_config,
\* heightmap_path, falcon_bms_root.  Gives the outcome of the construction and
\* the managers the call leaves behind.
ConverterInit(mode, cache, available, root, shadow_root, files, static, a) ==
    LET legacy == ArgTruthy(a.theater_config)
        by_name == ~legacy /\ ArgTruthy(a.theater_name)
        sets_root == by_name /\ ArgTruthy(a.falcon_bms_root)
        here == sets_root /\ mode = "package"
        root1 == IF here THEN ManagerRoot(a.falcon_bms_root.v) ELSE root
        cache1 == IF here THEN <<>> ELSE cache
        avail1 == IF here THEN None ELSE available
        shadow1 == IF sets_root /\ mode = "split"
                   THEN ManagerRoot(a.falcon_bms_root.v) ELSE shadow_root
        unchanged == [cache |-> cache, available |-> available, root |-> root,
                      shadow_root |-> shadow_root]
    IN  IF legacy
        THEN unchanged @@
             [result |-> IF ProjOf(a.theater_config).kind = "raise"
                         THEN ProjOf(a.theater_config)
                         ELSE Return([theater_config |-> a.theater_config.v,
                                      heightmap_path |-> ArgValue(a.heightmap_path)])]
        ELSE IF ~by_name
        THEN unchanged @@ [result |-> Raise("ValueError", "ValueError", "theater_name")]
        ELSE IF sets_root /\ mode = "toplevel"
        THEN unchanged @@ [result |-> Raise("ImportError", "ImportError", "..theater_config")]
        ELSE IF a.theater_name.kind # "str"
        THEN [cache |-> cache1, available |-> avail1, root |-> root1,
              shadow_root |-> shadow1,
              result |-> Raise("AttributeError", "AttributeError", "lower")]
        ELSE LET r == get_theater_config(cache1, avail1, files[root1], static,
                                         a.theater_name.v)
             IN  [cache |-> r.cache, available |-> r.available, root |-> root1,
                  shadow_root |-> shadow1,
                  result |-> IF r.result.kind = "raise" THEN r.result
                             ELSE IF ProjOf(ArgDict(r.result.value)).kind = "raise"
                             THEN ProjOf(ArgDict(r.result.value))
                             ELSE Return([theater_config |-> r.result.value,
                                          heightmap_path |-> ArgValue(a.heightmap_path)])]

\* heightmap_path arguments: None or a path
PathArguments == {ArgNone, ArgStr("HeightMap.raw")}

ConstructionNames == {"korea", "Nevada", "mars"}

\* CoordinateConverter(theater_name=..., heightmap_path=..., falcon_bms_root=...)
NamedConstructions ==
    { [op |-> "CoordinateConverter", theater_name |-> ArgStr(n), theater_config |-> ArgNone,
       heightmap_path |-> h, falcon_bms_root |-> r] :
        n \in ConstructionNames, h \in PathArguments,
        r \in {ArgNone} \cup { ArgStr(d) : d \in Roots } }

\* The new converter takes the place of the one the model follows.
Construct(t, a) ==
    LET c == ConverterInit(import_mode, _theater_cache, _bms_available, falcon_bms_root,
                           src_theater_config_root, bms_files, static_configs, a)
    IN  /\ ManagerCall(t, a, c.result, c.cache, c.available)
        /\ falcon_bms_root' = c.root
        /\ src_theater_config_root' = c.shadow_root
        /\ IF c.result.kind = "return"
           THEN /\ theater_config' = c.result.value.theater_config
                /\ heightmap_path' = c.result.value.heightmap_path
                /\ _heightmap_data' = None
           ELSE UNCHANGED converter

NewConverter(t) ==
    /\ pc[t] = "idle"
    /\ \E a \in NamedConstructions : Construct(t, a)

\* eval_airbases_to_tacview_final.py, main, lines 211-219:
\*     paths = get_theater_paths(theater_name)
\*     theater_config = THEATER_CONFIGS[theater_name]
\*     converter = CoordinateConverter(theater_config, paths['heightmap'])
\* Both arguments are positional: the config dict binds to the first
\* parameter, theater_name, and the path to the second, theater_config.
ExporterConstructions ==
    { [op |-> "CoordinateConverter", theater_name |-> ArgDict(cfg),
       theater_config |-> ArgStr("HeightMap.raw"), heightmap_path |-> ArgNone,
       falcon_bms_root |-> ArgNone] :
        cfg \in { StaticConfig(MaxW, MaxH), StaticConfig(1, 1) } }

MainBuildsConverter(t) ==
    /\ pc[t] = "idle"
    /\ \E a \in ExporterConstructions : Construct(t, a)

-----------------------------------------------------------------------------
(* Specifications *)

MainThread == "main"

\* One caller, one call at a time.
Next ==
    \/ GetElevationStep(MainThread)
    \/ GameToLatLon(MainThread)
    \/ LatLonToGame(MainThread)
    \/ GetMapCorners(MainThread)
    \/ GameToLatLonGridKarney(MainThread)
    \/ FeetToMeters(MainThread)
    \/ MetersToFeet(MainThread)
    \/ RoundTripLatLon(MainThread)
    \/ GenerateTacviewXml(MainThread)
    \/ ToDms(MainThread)
    \/ FormatCoordinates(MainThread)

Spec == Init /\ [][Next]_vars

\* Several threads call get_elevation on one converter.
NextConcurrent == \E t \in Threads : GetElevationStep(t)

InitConcurrent ==
    /\ Init
    /\ theater_config = StaticConfig(MaxW, MaxH)
    /\ heightmap_path = "HeightMap.raw"
    /\ fs.kind = "regular"
    /\ KARNEY_AVAILABLE

SpecConcurrent == InitConcurrent /\ [][NextConcurrent]_vars

\* One caller asks the manager for theater configs, again and again.
NextManager ==
    \/ GetTheaterConfig(MainThread)
    \/ ReturnToCaller(MainThread)

InitManagerSpec ==
    /\ theater_config = StaticConfig(MaxW, MaxH)
    /\ heightmap_path = None
    /\ _heightmap_data = None
    /\ KARNEY_AVAILABLE = TRUE
    /\ fs = [kind |-> "absent", content |-> <<>>]
    /\ \E env \in Installations : InitManager(env)
    /\ NoCallRunning

SpecManager == InitManagerSpec /\ [][NextManager]_vars

\* Installations of the provider specification: none, one whose korea loads,
\* one whose korea loads from a Theater.txt that declares HeightmapSize, one
\* whose korea does not load and whose nevada does.
ProviderInstallations ==
    { NoInstallation,
      [installed |-> TRUE, theaters |-> [k \in BmsTheaterKeys |-> "config"],
       sized |-> {}],
      [installed |-> TRUE, theaters |-> [k \in BmsTheaterKeys |-> "config"],
       sized |-> {"korea"}],
      [installed |-> TRUE,
       theaters |-> [k \in BmsTheaterKeys |-> IF k = "korea" THEN "none" ELSE "config"],
       sized |-> {}] }

\* One caller uses the module-level API and builds converters by name.
NextProvider ==
    \/ GetTheaterConfig(MainThread)
    \/ SetFalconBmsRoot(MainThread)
    \/ IsBmsInstallationAvailable(MainThread)
    \/ GetAvailableTheaters(MainThread)
    \/ GetTheaterPaths(MainThread)
    \/ NewConverter(MainThread)
    \/ MainBuildsConverter(MainThread)
    \/ ReturnToCaller(MainThread)

InitProvider ==
    /\ theater_config = StaticConfig(MaxW, MaxH)
    /\ heightmap_path = None
    /\ _heightmap_data = None
    /\ KARNEY_AVAILABLE = TRUE
    /\ fs = [kind |-> "absent", content |-> <<>>]
    /\ _theater_cache = <<>>
    /\ _bms_available = None
    /\ falcon_bms_root = DEFAULT_FALCON_BMS_ROOT
    /\ bms_files \in [Roots -> ProviderInstallations]
    /\ import_mode \in ImportModes
    /\ static_configs = STATIC_THEATER_CONFIGS
    /\ src_theater_config_root = NoValue
    /\ NoCallRunning

SpecProvider == InitProvider /\ [][NextProvider]_vars

\* Between two calls the installation at a root changes: it appears, goes
\* away, or its theater definitions change.
FilesChange(t) ==
    /\ pc[t] = "idle"
    /\ \E r \in Roots, inst \in ProviderInstallations :
          /\ inst # bms_files[r]
          /\ bms_files' = [bms_files EXCEPT ![r] = inst]
    /\ UNCHANGED <<converter, KARNEY_AVAILABLE, fs, pc, args, pixel, file_offset, fpos,
                   raw_bytes, io, outcome, _theater_cache, _bms_available,
                   falcon_bms_root, import_mode, static_configs,
                   src_theater_config_root>>

\* What a caller can do to a dict it was handed: set a top-level key, or set
\* a key of the dict under heightmap_bounds.
Modifications == {"top_level", "nested"}

\* config after the modification
Modified(config, what) ==
    IF what = "top_level"
    THEN [config EXCEPT !.center_lat = R(0)]
    ELSE [config EXCEPT !.heightmap_bounds.max_x = MaxX + 1]

\* The caller modifies the config the finished get_theater_config call
\* handed out.  That dict is the one the cache holds (lines 75, 82-83 and
\* 90-91 return the object they store or have stored).  Its heightmap_bounds
\* is the dict of the static entry whenever the static table has the name:
\* line 89 copies the entry one level deep, and lines 355-357 put the
\* entry's values into a loaded config as they are.
CallerModifies(t) ==
    /\ pc[t] = "done"
    /\ args[t].op = "get_theater_config"
    /\ outcome[t].kind = "return"
    /\ \E what \in Modifications :
          LET k == Lower(args[t].name)
              new == Modified(outcome[t].value, what)
          IN  /\ new # outcome[t].value
              /\ outcome' = [outcome EXCEPT ![t] = Return(new)]
              /\ _theater_cache' = [_theater_cache EXCEPT ![k] = new]
              /\ static_configs' =
                    IF what = "nested" /\ k \in DOMAIN static_configs
                    THEN [static_configs EXCEPT
                            ![k].heightmap_bounds = new.heightmap_bounds]
                    ELSE static_configs
    /\ UNCHANGED <<converter, KARNEY_AVAILABLE, fs, pc, args, pixel, file_offset, fpos,
                   raw_bytes, io, _bms_available, falcon_bms_root, bms_files,
                   import_mode, src_theater_config_root>>

\* One caller asks one manager again and again while the files change.
NextCache ==
    \/ GetTheaterConfig(MainThread)
    \/ CallerModifies(MainThread)
    \/ IsBmsInstallationAvailable(MainThread)
    \/ SetFalconBmsRoot(MainThread)
    \/ FilesChange(MainThread)
    \/ ReturnToCaller(MainThread)

InitCache ==
    /\ InitProvider
    /\ import_mode = "package"

SpecCache == InitCache /\ [][NextCache]_vars

-----------------------------------------------------------------------------
(* Properties *)

Done(t) == pc[t] = "done"
IsGetElevation(t) == args[t].op = "get_elevation"
Raised(t, exc) == Done(t) /\ outcome[t].kind = "raise" /\ outcome[t].exc = exc
Returned(t) == Done(t) /\ outcome[t].kind = "return"

\* The heightmap path is unset or names nothing on disk.
HeightmapMissing == heightmap_path \in {None, ""} \/ fs.kind = "absent"

\* A finished get_elevation call with feet input.
FeetCallDone(t) == Done(t) /\ IsGetElevation(t) /\ args[t].from_feet

InsideBounds(b, x, y) ==
    /\ b.min_x <= x /\ x <= b.max_x
    /\ b.min_y <= y /\ y <= b.max_y

\* C1: with an existing heightmap file and a well-formed config, a feet
\* coordinate is refused with CoordinatesOutOfBoundsError exactly when it lies
\* outside [min_x, max_x] x [min_y, max_y]; the edges themselves are accepted.
C1_InclusiveBounds ==
    \A t \in Threads :
        (FeetCallDone(t) /\ ~HeightmapMissing /\ WellFormed(theater_config)) =>
            (Raised(t, "CoordinatesOutOfBoundsError")
                <=> ~InsideBounds(theater_config.heightmap_bounds, args[t].x, args[t].y))

\* A lookup exactly at (max_x, max_y) was accepted and returned a sample.
C1_Witness ==
    \E t \in Threads :
        /\ FeetCallDone(t) /\ WellFormed(theater_config)
        /\ args[t].x = theater_config.heightmap_bounds.max_x
        /\ args[t].y = theater_config.heightmap_bounds.max_y
        /\ Returned(t)

\* C2: when the heightmap path is unset or names no file, get_elevation ends
\* in HeightmapNotFoundError for every input and every config, and the call
\* never opens, seeks or reads.
C2_NotFoundBeforeIO ==
    \A t \in Threads :
        (IsGetElevation(t) /\ HeightmapMissing) =>
            /\ io[t] = NoIO
            /\ pc[t] \in {"ge_load", "done"}
            /\ Done(t) => Raised(t, "HeightmapNotFoundError")

\* An out-of-bounds lookup on an incomplete config with a missing file ended
\* in HeightmapNotFoundError.
C2_Witness ==
    \E t \in Threads :
        /\ Done(t) /\ IsGetElevation(t)
        /\ heightmap_path = "HeightMap.raw" /\ fs.kind = "absent"
        /\ ~HasKey(theater_config, "heightmap_size")
        /\ args[t].x > MaxX
        /\ Raised(t, "HeightmapNotFoundError")

\* The call of thread t has computed its pixel indices and file offset.
PixelComputed(t) ==
    /\ IsGetElevation(t)
    /\ \/ pc[t] \in {"ge_open", "ge_seek", "ge_read"}
       \/ Done(t) /\ io[t].opens > 0

XPos(t) == ToFeet(args[t].x, args[t].from_feet)
YPos(t) == ToFeet(args[t].y, args[t].from_feet)

\* xRatio * (width - 1) of the running call
ScaledX(t) ==
    LET b == theater_config.heightmap_bounds
    IN  RMul(RDiv(RSub(XPos(t), R(b.min_x)), RSub(R(b.max_x), R(b.min_x))),
             R(theater_config.heightmap_size[1] - 1))

\* (1 - yRatio) * (height - 1) of the running call
ScaledY(t) ==
    LET b == theater_config.heightmap_bounds
    IN  RMul(RSub(R(1), RDiv(RSub(YPos(t), R(b.min_y)), RSub(R(b.max_y), R(b.min_y)))),
             R(theater_config.heightmap_size[2] - 1))

\* p is an integer nearest to v (either neighbour on a tie)
IsNearest(p, v) == 2 * Abs(p * v.d - v.n) <= v.d

\* p is v with its fraction dropped, v >= 0
IsTruncation(p, v) == p * v.d <= v.n /\ v.n < (p + 1) * v.d

\* C3 as stated: the pixel indices are the scaled ratios rounded to the
\* nearest pixel.
C3_RoundsToNearest ==
    \A t \in Threads :
        PixelComputed(t) =>
            /\ IsNearest(pixel[t][1], ScaledX(t))
            /\ IsNearest(pixel[t][2], ScaledY(t))

\* C3 amended: the pixel indices are the scaled ratios truncated toward zero
\* (int()), pixelX = trunc(xRatio * (width-1)), pixelY = trunc((1 - yRatio) *
\* (height-1)), each within 0..size-1.
C3_TruncatesToPixel ==
    \A t \in Threads :
        PixelComputed(t) =>
            /\ IsTruncation(pixel[t][1], ScaledX(t))
            /\ IsTruncation(pixel[t][2], ScaledY(t))
            /\ pixel[t][1] \in 0..(theater_config.heightmap_size[1] - 1)
            /\ pixel[t][2] \in 0..(theater_config.heightmap_size[2] - 1)

\* A lookup whose scaled x ratio has a fraction of one half or more, where
\* truncation and rounding differ.
C3_Witness ==
    \E t \in Threads :
        /\ PixelComputed(t)
        /\ 2 * (ScaledX(t).n % ScaledX(t).d) >= ScaledX(t).d
        /\ ScaledX(t).d > 1

\* C4: the file offset is (pixelY * width + pixelX) * 2 and the read happens
\* there; row 0 is the northern edge: (min_x, max_y) is pixel (0, 0) at offset
\* 0, (max_x, min_y) is pixel (width-1, height-1) at offset (width*height-1)*2;
\* pixelX never decreases with x and pixelY never increases with y.
C4_OffsetAndOrientation ==
    /\ \A t \in Threads :
        PixelComputed(t) =>
            LET b == theater_config.heightmap_bounds
                w == theater_config.heightmap_size[1]
                h == theater_config.heightmap_size[2]
                a == args[t]
            IN  /\ file_offset[t] = (pixel[t][2] * w + pixel[t][1]) * 2
                /\ pc[t] = "ge_read" => fpos[HandleOf(t)] = file_offset[t]
                /\ (a.from_feet /\ a.x = b.min_x /\ a.y = b.max_y)
                      => pixel[t] = <<0, 0>> /\ file_offset[t] = 0
                /\ (a.from_feet /\ a.x = b.max_x /\ a.y = b.min_y)
                      => /\ pixel[t] = <<w - 1, h - 1>>
                         /\ file_offset[t] = (w * h - 1) * 2
    /\ \A t1, t2 \in Threads :
        (PixelComputed(t1) /\ PixelComputed(t2)) =>
            /\ ~RGt(XPos(t1), XPos(t2)) => pixel[t1][1] <= pixel[t2][1]
            /\ ~RGt(YPos(t1), YPos(t2)) => pixel[t1][2] >= pixel[t2][2]

\* Two lookups about to read: the north-west corner at offset 0 and the
\* south-east corner at the last sample.
C4_Witness ==
    LET b == theater_config.heightmap_bounds
        w == theater_config.heightmap_size[1]
        h == theater_config.heightmap_size[2]
    IN  /\ pc["main"] = "ge_read" /\ pc["worker"] = "ge_read"
        /\ w * h > 1
        /\ args["main"].from_feet /\ args["worker"].from_feet
        /\ args["main"].x = b.min_x /\ args["main"].y = b.max_y
        /\ args["worker"].x = b.max_x /\ args["worker"].y = b.min_y
        /\ fpos[HandleOf("main")] = 0
        /\ fpos[HandleOf("worker")] = (w * h - 1) * 2

\* C5: a read that yields fewer than 2 bytes (the file ends before offset + 2)
\* ends the call in HeightmapReadError; a value is returned only from a full
\* 2-byte sample.
C5_ShortReadFails ==
    \A t \in Threads :
        (Done(t) /\ IsGetElevation(t) /\ io[t].reads > 0) =>
            /\ (Len(fs.content) < file_offset[t] + 2 \/ Len(raw_bytes[t]) < 2)
                  => Raised(t, "HeightmapReadError")
            /\ Returned(t) => Len(raw_bytes[t]) = 2

\* A read that got one byte of a sample ended in HeightmapReadError.
C5_Witness ==
    \E t \in Threads :
        /\ Done(t) /\ IsGetElevation(t) /\ io[t].reads > 0
        /\ Len(raw_bytes[t]) = 1
        /\ Raised(t, "HeightmapReadError")

\* C6: a returned elevation is the unsigned 16-bit little-endian value of the
\* two bytes at the offset, b0 + 256 * b1, unscaled, in 0..65535.
C6_UnsignedLittleEndian ==
    \A t \in Threads :
        (Returned(t) /\ IsGetElevation(t)) =>
            /\ outcome[t].value
                 = fs.content[file_offset[t] + 1] + 256 * fs.content[file_offset[t] + 2]
            /\ outcome[t].value \in 0..65535

\* A meter-input lookup returned a sample whose high byte is set.
C6_Witness ==
    \E t \in Threads :
        /\ Returned(t) /\ IsGetElevation(t)
        /\ ~args[t].from_feet
        /\ outcome[t].value > 32767

\* C7 as stated: every failure of get_elevation is one of the three typed
\* errors, each only for its documented cause: HeightmapNotFoundError for a
\* missing or inaccessible file, CoordinatesOutOfBoundsError for a coordinate
\* outside the bounds, HeightmapReadError for a read of the file that came
\* short or failed; and a value is returned only from a full sample.
C7_TypedByCause ==
    \A t \in Threads :
        (Done(t) /\ IsGetElevation(t)) =>
            /\ outcome[t].kind = "raise" =>
                /\ outcome[t].exc \in {"HeightmapNotFoundError",
                                       "CoordinatesOutOfBoundsError",
                                       "HeightmapReadError"}
                /\ outcome[t].exc = "HeightmapNotFoundError" =>
                      (HeightmapMissing \/ fs.kind = "unreadable")
                /\ outcome[t].exc = "CoordinatesOutOfBoundsError" =>
                      /\ HasKey(theater_config, "heightmap_bounds")
                      /\ OutOfBounds(theater_config.heightmap_bounds, XPos(t), YPos(t))
                /\ outcome[t].exc = "HeightmapReadError" => io[t].opens > 0
            /\ outcome[t].kind = "return" => Len(raw_bytes[t]) = 2

\* C8: lookups that run interleaved on one converter and one unchanged raster
\* each read at their own cursor and end exactly as they end when run alone;
\* equal arguments give equal results.
C8_IndependentLookups ==
    /\ \A t \in Threads :
        (Done(t) /\ IsGetElevation(t)) =>
            outcome[t] = ElevationAlone(theater_config, heightmap_path, fs, args[t])
    /\ \A t1, t2 \in Threads :
        (Done(t1) /\ Done(t2) /\ args[t1] = args[t2]) => outcome[t1] = outcome[t2]

\* Both lookups have opened and seeked, to different offsets, and neither has
\* read yet.
C8_Witness ==
    /\ pc["main"] = "ge_read" /\ pc["worker"] = "ge_read"
    /\ file_offset["main"] # file_offset["worker"]
    /\ fpos["main"] = file_offset["main"]
    /\ fpos["worker"] = file_offset["worker"]

\* C9: no step of any operation changes theater_config or heightmap_path, the
\* cache field _heightmap_data stays None, and a lookup that returns a value
\* has done one open, one seek and one read of 2 bytes.
C9_ConverterUnchanged ==
    [][ /\ theater_config' = theater_config
        /\ heightmap_path' = heightmap_path
        /\ _heightmap_data' = None
        /\ \A t \in Threads :
              (pc'[t] = "done" /\ args'[t].op = "get_elevation"
                  /\ outcome'[t].kind = "return") =>
                  /\ io'[t] = [opens |-> 1, seeks |-> 1, reads |-> 1]
                  /\ Len(raw_bytes'[t]) = BYTES_PER_SAMPLE ]_vars

\* A lookup has returned a value after one open, one seek and one read, and
\* the cache field is still None.
C9_Witness ==
    \E t \in Threads :
        /\ Returned(t) /\ IsGetElevation(t)
        /\ io[t] = [opens |-> 1, seeks |-> 1, reads |-> 1]
        /\ _heightmap_data = None

\* C10 as stated: without the high-precision projector,
\* game_to_latlon_grid_karney still returns a (lat, lon) pair for every input.
C10_FallbackReturns ==
    \A t \in Threads :
        (Done(t) /\ args[t].op = "game_to_latlon_grid_karney" /\ ~KARNEY_AVAILABLE) =>
            outcome[t].kind = "return"

IsGridKarney(t) == args[t].op = "game_to_latlon_grid_karney"

GridFieldNames == {"theater_size_meters", "meter_res", "grid_to_ft", "ft_to_grid"}

\* The config carries all four grid constants, none of them zero.
GridFieldsPresent(cfg) ==
    \A k \in GridFieldNames : HasKey(cfg, k) /\ cfg[k].n # 0

\* C11 as stated: a game_to_latlon_grid_karney call that leaves the exact
\* path (no high-precision projector, or grid constants derived because the
\* config lacks them) tells its caller so: it does not end in a plain result
\* that looks like an exact one.
C11_FallbackSignalled ==
    \A t \in Threads :
        (Done(t) /\ IsGridKarney(t)
            /\ (~KARNEY_AVAILABLE \/ ~GridFieldsPresent(theater_config))) =>
            (outcome[t].kind = "raise" \/ "note" \in DOMAIN outcome[t])

\* The keys of the descriptor that the grid path converts to numbers all
\* carry a number.
DescriptorNumeric(proj_str) ==
    \A i \in 1..Len(proj_str) :
        (proj_str[i].plus /\ proj_str[i].key \in {"lon_0", "k", "k_0"}) =>
            proj_str[i].val.kind = "num"

\* C12 as stated: with a projection_string and a heightmap_size in the
\* config, game_to_latlon_grid_karney returns a (lat, lon) pair whichever of
\* the grid-exact fields are missing.
C12_MissingFieldsComplete ==
    \A t \in Threads :
        (Done(t) /\ IsGridKarney(t)
            /\ HasKey(theater_config, "projection_string")
            /\ HasKey(theater_config, "heightmap_size")
            /\ DescriptorNumeric(theater_config.projection_string)) =>
            outcome[t].kind = "return"

\* The planar meters inside a returned grid result: final = planar + offset,
\* offset = center projection - theater_size_meters / 2.
HalfSize(cfg) ==
    RDiv(GridConstants(cfg, cfg.heightmap_size[1]).theater_size_meters, R(2))
PlanarX(t) == RAdd(outcome[t].value[1].a.plus, HalfSize(theater_config))
PlanarZ(t) == RAdd(outcome[t].value[1].b.plus, HalfSize(theater_config))

\* Steps 2-5 as the specification writes them.
StepsX(gc, W, x_feet) ==
    RMul(RAdd(RAdd(RNeg(RNorm(W - 1, 2)), RMul(x_feet, gc.ft_to_grid)), RNorm(W - 1, 2)),
         gc.meter_res)
StepsZ(gc, W, y_feet) ==
    RSub(gc.theater_size_meters,
         RMul(RNeg(RSub(RAdd(RNeg(RNorm(W - 1, 2)), RMul(y_feet, gc.ft_to_grid)),
                        RNorm(W - 1, 2))),
              gc.meter_res))

FeetYs == (MinY - 1)..(MaxY + 1)

\* C13: the planar meters of a returned grid conversion are those of steps
\* 2-5; x is x_feet * ftToGrid * meterRes whatever the raster width; and a
\* larger y_feet gives a strictly larger z.
C13_PlanarMeters ==
    \A t \in Threads :
        (Returned(t) /\ IsGridKarney(t)) =>
            LET W == theater_config.heightmap_size[1]
                gc == GridConstants(theater_config, W)
                x_feet == XPos(t)
                y_feet == YPos(t)
            IN  /\ PlanarX(t) = StepsX(gc, W, x_feet)
                /\ PlanarZ(t) = StepsZ(gc, W, y_feet)
                /\ PlanarX(t) = RMul(RMul(x_feet, gc.ft_to_grid), gc.meter_res)
                /\ \A y2 \in FeetYs :
                      RLt(y_feet, R(y2)) =>
                          RLt(PlanarZ(t), GridPlanar(gc, W, x_feet, R(y2))[2])

\* A feet input with x > 0 on a raster wider than one sample was converted.
C13_Witness ==
    \E t \in Threads :
        /\ Returned(t) /\ IsGridKarney(t) /\ args[t].from_feet
        /\ theater_config.heightmap_size[1] = MaxW
        /\ args[t].x = MaxX /\ args[t].y = MinY
        /\ RGt(PlanarX(t), R(0))

\* The config with the values of the x_0 and y_0 tokens replaced.
WithFalseOrigin(cfg, origin) ==
    LET str == cfg.projection_string
    IN  [cfg EXCEPT !.projection_string =
            [i \in 1..Len(str) |->
                IF str[i].key = "x_0" THEN [str[i] EXCEPT !.val = NumVal(R(origin[1]))]
                ELSE IF str[i].key = "y_0" THEN [str[i] EXCEPT !.val = NumVal(R(origin[2]))]
                ELSE str[i]]]

AltOrigins == { <<0, 0>>, <<1, 2>>, <<512000, -3749290>> }

HasOriginToken(cfg) ==
    \E i \in 1..Len(cfg.projection_string) :
        cfg.projection_string[i].key \in {"x_0", "y_0"}

\* C14: the outcome of game_to_latlon_grid_karney (final planar coordinates,
\* projector parameters and (lat, lon)) is the one the same call gives on the
\* config with any other x_0 / y_0 values.
C14_FalseOriginIgnored ==
    \A t \in Threads :
        (Done(t) /\ IsGridKarney(t)) =>
            \A o \in AltOrigins :
                outcome[t] = game_to_latlon_grid_karney(
                                 WithFalseOrigin(theater_config, o), KARNEY_AVAILABLE,
                                 args[t].x, args[t].y, args[t].from_feet)

\* A grid conversion returned on a config whose descriptor has x_0 / y_0
\* tokens with values other than (1, 2).
C14_Witness ==
    \E t \in Threads :
        /\ Returned(t) /\ IsGridKarney(t)
        /\ HasOriginToken(theater_config)
        /\ WithFalseOrigin(theater_config, <<1, 2>>) # theater_config

\* The value of the last "+key=" token of the descriptor, or the default.
LastTokenValue(proj_str, key, default) ==
    LET I == { i \in 1..Len(proj_str) : proj_str[i].plus /\ proj_str[i].key = key }
    IN  IF I = {} THEN default
        ELSE proj_str[CHOOSE i \in I : \A j \in I : j <= i].val.v

\* C15: the projector of a returned grid conversion is centred on the last
\* +lon_0 value, or on center_lon without one, and scaled by the last +k
\* value, else the last +k_0 value, else 0.9996; tokens without "+" count
\* for nothing.
C15_ProjectorParameters ==
    \A t \in Threads :
        (Returned(t) /\ IsGridKarney(t)) =>
            LET str == theater_config.projection_string
                center_lon == IF HasKey(theater_config, "center_lon")
                              THEN theater_config.center_lon ELSE RNorm(1275, 10)
            IN  /\ outcome[t].value[1].lon0 = LastTokenValue(str, "lon_0", center_lon)
                /\ outcome[t].value[1].k0 =
                      LastTokenValue(str, "k",
                          LastTokenValue(str, "k_0", RNorm(9996, 10000)))

\* A grid conversion returned on the descriptor that has a token without
\* "+", lon_0 twice, and both k_0 and k.
C15_Witness ==
    \E t \in Threads :
        /\ Returned(t) /\ IsGridKarney(t)
        /\ theater_config.projection_string = MixedString
        /\ outcome[t].value[1].lon0 = R(127)
        /\ outcome[t].value[1].k0 = RNorm(9996, 10000)

\* A descriptor with a token without "+", a numeric key without a number, or
\* a projection family other than tmerc.
MalformedTokens(proj_str) ==
    { i \in 1..Len(proj_str) :
        \/ ~proj_str[i].plus
        \/ proj_str[i].plus /\ proj_str[i].key \in {"lon_0", "k", "k_0"}
              /\ proj_str[i].val.kind # "num"
        \/ proj_str[i].plus /\ proj_str[i].key = "proj" /\ proj_str[i].val.v # "tmerc" }

\* C16 as stated: a grid conversion on a malformed or unsupported descriptor
\* ends in a ProjectionError that names an offending token.
C16_MalformedRejected ==
    \A t \in Threads :
        (Done(t) /\ IsGridKarney(t) /\ KARNEY_AVAILABLE
            /\ HasKey(theater_config, "heightmap_size")
            /\ MalformedTokens(theater_config.projection_string) # {}) =>
            /\ outcome[t].kind = "raise"
            /\ outcome[t].exc = "ProjectionError"
            /\ \E i \in MalformedTokens(theater_config.projection_string) :
                  outcome[t].info = theater_config.projection_string[i].key

\* C17: get_map_corners on a config with bounds returns the keys sw, se, nw,
\* ne; each 'game' entry is the pair of bound extremes of that corner and each
\* 'latlon' entry is game_to_latlon of that pair in the requested unit.
C17_MapCorners ==
    \A t \in Threads :
        (Done(t) /\ args[t].op = "get_map_corners"
            /\ HasKey(theater_config, "heightmap_bounds")) =>
            LET b == theater_config.heightmap_bounds
                v == outcome[t].value
            IN  /\ outcome[t].kind = "return"
                /\ DOMAIN v = {"sw", "se", "nw", "ne"}
                /\ v["sw"].game = <<b.min_x, b.min_y>>
                /\ v["se"].game = <<b.max_x, b.min_y>>
                /\ v["nw"].game = <<b.min_x, b.max_y>>
                /\ v["ne"].game = <<b.max_x, b.max_y>>
                /\ \A c \in DOMAIN v :
                      v[c].latlon = game_to_latlon(theater_config, R(v[c].game[1]),
                                                   R(v[c].game[2]), args[t].from_feet)

\* The corners were asked for in meters and the north-east one is (max_x, max_y).
C17_Witness ==
    \E t \in Threads :
        /\ Returned(t) /\ args[t].op = "get_map_corners" /\ ~args[t].from_feet
        /\ outcome[t].value["ne"].game = <<MaxX, MaxY>>
        /\ outcome[t].value["sw"].game # outcome[t].value["nw"].game

\* C18: feet_to_meters multiplies by the constant meters_to_feet divides by,
\* so each undoes the other exactly, and both always return.
C18_UnitRoundTrip ==
    /\ FEET_PER_METER_NUM = FT_TO_METERS_NUM
    /\ \A t \in Threads :
        (Done(t) /\ args[t].op \in {"feet_to_meters", "meters_to_feet"}) =>
            /\ outcome[t].kind = "return"
            /\ args[t].op = "feet_to_meters" =>
                  /\ outcome[t].value = RMul(args[t].x, RNorm(FEET_PER_METER_NUM, DECIMALS_5))
                  /\ meters_to_feet(outcome[t].value) = args[t].x
            /\ args[t].op = "meters_to_feet" =>
                  /\ RMul(outcome[t].value, RNorm(FT_TO_METERS_NUM, DECIMALS_5)) = args[t].x
                  /\ feet_to_meters(outcome[t].value) = args[t].x

\* 33586.5 meters were converted to feet, and the result is another number.
C18_Witness ==
    \E t \in Threads :
        /\ Returned(t) /\ args[t].op = "meters_to_feet"
        /\ args[t].x = RNorm(67173, 2)
        /\ outcome[t].value # args[t].x

\* One ten-millionth of a degree is at most 11.2 mm on the ground (a degree
\* of arc is nowhere longer than 111.7 km), so a planar point that is off by
\* more than 12 mm is off by more than 1e-7 degrees.
TOLERANCE_METERS == RNorm(12, 1000)

WithinTolerance(a, b) == ~RGt(RAbs(RDiff(a, b)), TOLERANCE_METERS)

\* C19 as stated: converting (lat, lon) to game coordinates and back, in
\* meters or in feet, hands the inverse projection the point the forward
\* projection gave, to within 1e-7 degrees.
C19_RoundTripWithinTolerance ==
    \A t \in Threads :
        (Done(t) /\ args[t].op = "round_trip") =>
            /\ outcome[t].kind = "return"
            /\ WithinTolerance(outcome[t].value.latlon[1].a, outcome[t].value.forward[1])
            /\ WithinTolerance(outcome[t].value.latlon[1].b, outcome[t].value.forward[2])

\* The same, for round trips in meters only.
C19_RoundTripMeters ==
    \A t \in Threads :
        (Done(t) /\ args[t].op = "round_trip" /\ ~args[t].from_feet) =>
            /\ outcome[t].value.latlon[1].a = outcome[t].value.forward[1]
            /\ outcome[t].value.latlon[1].b = outcome[t].value.forward[2]

IsGetTheaterConfig(t) == args[t].op = "get_theater_config"

\* The name in lower case, spelled out for the names of the model.
CanonicalName(name) ==
    IF name \in {"korea", "Korea", "KOREA"} THEN "korea"
    ELSE IF name \in {"nevada", "Nevada"} THEN "nevada"
    ELSE name

\* The installation is there and loading theater k from it yields a config.
BmsYields(k) ==
    /\ bms_files[falcon_bms_root].installed
    /\ k \in DOMAIN bms_files[falcon_bms_root].theaters
    /\ bms_files[falcon_bms_root].theaters[k] = "config"

\* C20: get_theater_config answers for the lower-cased name: the config of
\* the installation files when the installation is there and loading yields
\* one; otherwise the static entry; and ValueError exactly when neither has
\* the name.
C20_ResolutionPrecedence ==
    \A t \in Threads :
        (Done(t) /\ IsGetTheaterConfig(t)) =>
            LET k == CanonicalName(args[t].name)
            IN  /\ BmsYields(k) => outcome[t] = Return(BmsLoaded(bms_files[falcon_bms_root],
                                                                 STATIC_THEATER_CONFIGS, k))
                /\ (~BmsYields(k) /\ k \in DOMAIN STATIC_THEATER_CONFIGS) =>
                      outcome[t] = Return(STATIC_THEATER_CONFIGS[k])
                /\ (outcome[t].kind = "raise") <=>
                      (~BmsYields(k) /\ k \notin DOMAIN STATIC_THEATER_CONFIGS)
                /\ outcome[t].kind = "raise" => outcome[t].exc = "ValueError"

\* "KOREA" was answered from the static table because loading korea from the
\* installation raised, after an earlier call had already been answered.
C20_Witness ==
    \E t \in Threads :
        /\ Done(t) /\ IsGetTheaterConfig(t) /\ args[t].name = "KOREA"
        /\ bms_files[falcon_bms_root].installed
        /\ bms_files[falcon_bms_root].theaters["korea"] = "raises"
        /\ outcome[t] = Return(STATIC_THEATER_CONFIGS["korea"])
        /\ DOMAIN _theater_cache # {"korea"}

IsConstruction(t) == args[t].op = "CoordinateConverter"

\* What a lookup of name k resolves to against the installation files.
ResolvedAgainst(files, k) ==
    IF files.installed /\ k \in DOMAIN files.theaters /\ files.theaters[k] = "config"
    THEN Return(BmsLoaded(files, STATIC_THEATER_CONFIGS, k))
    ELSE IF k \in DOMAIN STATIC_THEATER_CONFIGS
    THEN Return(STATIC_THEATER_CONFIGS[k])
    ELSE Raise("ValueError", "ValueError", k)

\* C21: once set_falcon_bms_root(path) has returned, the manager works on
\* path with nothing cached; in particular a converter built by name with a
\* root gets the config that name resolves to under that root.
C21_NewRootResolves ==
    \A t \in Threads :
        /\ (Done(t) /\ args[t].op = "set_falcon_bms_root" /\ args[t].path \in Roots) =>
              /\ falcon_bms_root = args[t].path
              /\ _theater_cache = <<>>
              /\ _bms_available = None
        /\ (Done(t) /\ IsConstruction(t)
              /\ args[t].theater_config.kind = "none"
              /\ args[t].theater_name.kind = "str"
              /\ args[t].falcon_bms_root.kind = "str") =>
              LET want == ResolvedAgainst(bms_files[args[t].falcon_bms_root.v],
                                          CanonicalName(args[t].theater_name.v))
              IN  IF want.kind = "raise" THEN outcome[t] = want
                  ELSE /\ outcome[t].kind = "return"
                       /\ outcome[t].value.theater_config = want.value

\* The feet value of an input coordinate: itself, or meters / 0.30488.
InFeet(v, from_feet) ==
    IF from_feet THEN R(v) ELSE RDiv(R(v), RNorm(FT_TO_METERS_NUM, DECIMALS_5))

OutsideFeetBounds(b, xf, yf) ==
    \/ RLt(xf, R(b.min_x)) \/ RGt(xf, R(b.max_x))
    \/ RLt(yf, R(b.min_y)) \/ RGt(yf, R(b.max_y))

\* C22: with the heightmap in place and a well-formed config, get_elevation
\* checks the feet values of its input (meters divided by 0.30488) against the
\* bounds before it touches the file: a call that has opened the file has an
\* input inside the bounds, and a call whose input is outside ends in
\* CoordinatesOutOfBoundsError with no open, seek or read, carrying the feet
\* coordinate and the bounds.
C22_BoundsBeforeOpen ==
    \A t \in Threads :
        (IsGetElevation(t) /\ ~HeightmapMissing /\ WellFormed(theater_config)) =>
            LET b == theater_config.heightmap_bounds
                xf == InFeet(args[t].x, args[t].from_feet)
                yf == InFeet(args[t].y, args[t].from_feet)
            IN  /\ (io[t] # NoIO \/ pc[t] \in {"ge_open", "ge_seek", "ge_read"}) =>
                      ~OutsideFeetBounds(b, xf, yf)
                /\ (Done(t) /\ OutsideFeetBounds(b, xf, yf)) =>
                      /\ Raised(t, "CoordinatesOutOfBoundsError")
                      /\ io[t] = NoIO
                      /\ outcome[t].info = [x |-> xf, y |-> yf, bounds |-> b]

\* A lookup given in meters, inside the bounds as a number of meters and
\* outside them in feet, was refused without touching the file.
C22_Witness ==
    \E t \in Threads :
        /\ Done(t) /\ IsGetElevation(t) /\ ~args[t].from_feet
        /\ ~HeightmapMissing /\ WellFormed(theater_config)
        /\ InsideBounds(theater_config.heightmap_bounds, args[t].x, args[t].y)
        /\ Raised(t, "CoordinatesOutOfBoundsError")
        /\ io[t] = NoIO

\* C23: on a well-formed config, a coordinate that passed the bounds check
\* has its truncated scaled ratios inside the raster already (the clamp that
\* follows changes nothing), and the offset to seek to is even, not negative,
\* at most the offset of the last sample, and leaves room for 2 bytes in a
\* file of width * height * 2 bytes.
C23_OffsetInsideRaster ==
    \A t \in Threads :
        (PixelComputed(t) /\ WellFormed(theater_config)) =>
            LET w == theater_config.heightmap_size[1]
                h == theater_config.heightmap_size[2]
                px == IntTrunc(ScaledX(t))
                py == IntTrunc(ScaledY(t))
            IN  /\ 0 <= px /\ px <= w - 1
                /\ 0 <= py /\ py <= h - 1
                /\ pixel[t] = <<px, py>>
                /\ file_offset[t] % 2 = 0
                /\ 0 <= file_offset[t] /\ file_offset[t] <= (w * h - 1) * 2
                /\ file_offset[t] + 2 <= w * h * 2

\* A lookup given in meters passed the bounds check and is about to seek to
\* a sample that is not the first one.
C23_Witness ==
    \E t \in Threads :
        /\ PixelComputed(t) /\ WellFormed(theater_config) /\ ~args[t].from_feet
        /\ pc[t] = "ge_seek"
        /\ file_offset[t] > 0

\* The step is a whole call of the named API function by thread t.
CallStep(t, op) == pc[t] = "idle" /\ pc'[t] = "done" /\ args'[t].op = op

\* C24: a get_theater_config call for a name the manager has cached, in any
\* letter case, returns the cached config and leaves the manager as it was,
\* whatever the files are by then; a call that raises caches nothing; an
\* evaluated availability stays as it is until the manager is replaced; and
\* a change of the files changes nothing in the manager.
C24_CachedAnswersStay ==
    [][ /\ \A t \in Threads :
             CallStep(t, "get_theater_config") =>
                LET k == CanonicalName(args'[t].name)
                IN  /\ k \in DOMAIN _theater_cache =>
                          /\ outcome'[t] = Return(_theater_cache[k])
                          /\ _theater_cache' = _theater_cache
                          /\ _bms_available' = _bms_available
                    /\ outcome'[t].kind = "raise" => _theater_cache' = _theater_cache
                    /\ \A n \in DOMAIN _theater_cache :
                          n \in DOMAIN _theater_cache' /\ _theater_cache'[n] = _theater_cache[n]
        /\ (_bms_available # None /\ \A t \in Threads : ~CallStep(t, "set_falcon_bms_root")) =>
                _bms_available' = _bms_available
        /\ bms_files' # bms_files =>
                _theater_cache' = _theater_cache /\ _bms_available' = _bms_available
      ]_vars

\* "KOREA" was answered with the static config although the installation is
\* known to be there and its files by now yield a korea config: the answer
\* came from the cache.
C24_Witness ==
    \E t \in Threads :
        /\ Done(t) /\ IsGetTheaterConfig(t) /\ args[t].name = "KOREA"
        /\ _bms_available = "True"
        /\ BmsYields("korea")
        /\ outcome[t] = Return(STATIC_THEATER_CONFIGS["korea"])

\* The configs the provider's own data gives for name k.
PristineConfigs(k) ==
    { STATIC_THEATER_CONFIGS[n] : n \in DOMAIN STATIC_THEATER_CONFIGS \cap {k} }
    \cup { BmsLoaded(inst, STATIC_THEATER_CONFIGS, k) : inst \in ProviderInstallations }

\* C25: whatever callers do to the configs they were handed, the static table
\* stays as theater_data.py wrote it and every get_theater_config call
\* returns a config as the provider's data gives it.
C25_ReturnedConfigsIsolated ==
    [][ /\ static_configs' = STATIC_THEATER_CONFIGS
        /\ \A t \in Threads :
              (CallStep(t, "get_theater_config") /\ outcome'[t].kind = "return") =>
                  outcome'[t].value \in PristineConfigs(CanonicalName(args'[t].name))
      ]_vars

\* C26: every config get_theater_config returns has heightmap_size as a pair
\* of positive numbers and heightmap_bounds with min below max on both axes.
C26_ReturnedConfigsWellFormed ==
    \A t \in Threads :
        (Done(t) /\ IsGetTheaterConfig(t) /\ outcome[t].kind = "return") =>
            LET cfg == outcome[t].value
            IN  /\ HasKey(cfg, "heightmap_size") /\ HasKey(cfg, "heightmap_bounds")
                /\ Len(cfg.heightmap_size) = 2
                /\ cfg.heightmap_size[1] > 0 /\ cfg.heightmap_size[2] > 0
                /\ cfg.heightmap_bounds.min_x < cfg.heightmap_bounds.max_x
                /\ cfg.heightmap_bounds.min_y < cfg.heightmap_bounds.max_y

\* The construction is the one the exporter's main makes: a config dict and
\* a heightmap path, in this order, and nothing else.
IsExporterConstruction(t) ==
    /\ IsConstruction(t)
    /\ args[t].theater_name.kind = "dict"
    /\ args[t].theater_config.kind = "str"

\* C27: the converter the exporter's main builds from a theater's config and
\* heightmap path is constructed, with that config as its theater_config and
\* that path as its heightmap_path.
C27_ExporterConverter ==
    \A t \in Threads :
        (Done(t) /\ IsExporterConstruction(t)) =>
            /\ outcome[t].kind = "return"
            /\ theater_config = args[t].theater_name.v
            /\ heightmap_path = args[t].theater_config.v

IsGenerateXml(t) == args[t].op = "generate_tacview_xml"

\* What the elevation lookup at (x, y) gives on the converter.
LookupAt(x, y) == ElevationAt(theater_config, heightmap_path, fs, x, y)

\* The altitude an object is to carry: the sample, or the fallback when the
\* lookup failed.
AltitudeOr(lookup, fallback) == IF lookup.kind = "return" THEN lookup.value ELSE fallback

\* C28: the output of generate_tacview_xml has an Airport object for every
\* airbase, with the elevation at the airbase as altitude or 0 when that
\* lookup fails, and an object for every runway, with the elevation at the
\* runway or, when that lookup fails, the altitude of its airbase.
C28_ElevationFailureKeepsObjects ==
    \A t \in Threads :
        (Done(t) /\ IsGenerateXml(t)) =>
            LET out == outcome[t].value
                abs == args[t].airbases
            IN  \A i \in 1..Len(abs) :
                    LET ab == abs[i]
                        alt == AltitudeOr(LookupAt(ab.x, ab.y), 0)
                    IN  /\ \E o \in 1..Len(out) :
                              out[o] = [type |-> "Airport", of |-> ab.id, no |-> 0,
                                        altitude |-> alt]
                        /\ \A j \in 1..Len(ab.runways) :
                              \E o \in 1..Len(out) :
                                  out[o] = [type |-> "Runway", of |-> ab.id, no |-> j,
                                            altitude |->
                                                AltitudeOr(LookupAt(ab.x + ab.runways[j].x,
                                                                    ab.y + ab.runways[j].y),
                                                           alt)]

\* C29: when the grid factors are derived inside the call, a returned grid
\* conversion of meter input has the input x as its planar x, and a feet
\* input has the planar x of the same point given in meters.
C29_OneFeetPerMeterRatio ==
    \A t \in Threads :
        (Returned(t) /\ IsGridKarney(t) /\ ~GridFieldsPresent(theater_config)) =>
            LET W == theater_config.heightmap_size[1]
                gc == GridConstants(theater_config, W)
            IN  /\ ~args[t].from_feet => PlanarX(t) = R(args[t].x)
                /\ args[t].from_feet =>
                      PlanarX(t) =
                          GridPlanar(gc, W,
                                     meters_to_feet(feet_to_meters(R(args[t].x))),
                                     meters_to_feet(feet_to_meters(R(args[t].y))))[1]

\* The value a degrees/minutes text stands for, sign applied to the whole.
DmValue(o) ==
    LET magnitude == RAdd(R(o.degrees), RNorm(o.minutes, MINUTES_PER_DEGREE * FOUR_DECIMALS))
    IN  IF o.minus THEN RNeg(magnitude) ELSE magnitude

\* The value a (degrees, minutes, seconds) triple stands for, the sign taken
\* from the degrees.
DmsValue(dms) ==
    LET magnitude == RAdd(R(Abs(dms[1])),
                          RAdd(RNorm(dms[2], MINUTES_PER_DEGREE),
                               RDiv(dms[3], R(MINUTES_PER_DEGREE * MINUTES_PER_DEGREE))))
    IN  IF dms[1] < 0 THEN RNeg(magnitude) ELSE magnitude

\* Half of the last printed digit of the minutes, in degrees.
HalfDigit == RNorm(1, 2 * MINUTES_PER_DEGREE * FOUR_DECIMALS)

IsToDms(t) == args[t].op = "to_dms"

IsFormatDms(t) == args[t].op = "format_coordinates" /\ args[t].include_dms

\* C30: the degrees/minutes text of to_dms and the triple of dd_to_dms stand
\* for the decimal degrees they were made from, sign included, with minutes
\* and seconds below 60, and a value and its negation give different outputs.
C30_DegreeMinutesLossless ==
    \A t \in Threads :
        /\ (Returned(t) /\ IsToDms(t)) =>
              LET dd == args[t].deg
                  o == outcome[t].value
              IN  /\ dd.n < 0 => o.minus
                  /\ o.minutes < MINUTES_PER_DEGREE * FOUR_DECIMALS
                  /\ ~RGt(RAbs(RSub(DmValue(o), dd)), HalfDigit)
                  /\ dd.n # 0 => o # to_dms(RNeg(dd))
        /\ (Returned(t) /\ IsFormatDms(t)) =>
              LET dd == args[t].lat
                  dms == outcome[t].value.dms.lat
              IN  /\ dd.n < 0 => dms[1] < 0
                  /\ 0 <= dms[2] /\ dms[2] < MINUTES_PER_DEGREE
                  /\ dms[3].n >= 0 /\ RLt(dms[3], R(MINUTES_PER_DEGREE))
                  /\ DmsValue(dms) = dd
                  /\ dd.n # 0 => dms # dd_to_dms(RNeg(dd))

====
